---- MODULE Spec2Model ----
(***************************************************************************)
(* Model of the markdown utilities of llm-for-zotero: renderMarkdown and   *)
(* stripMarkdown.  A string is a sequence of one-character strings; every  *)
(* regular-expression pass of the source is an operator that scans the     *)
(* sequence the way the JavaScript regular expression does.  The backtick   *)
(* cannot be written inside a TLA+ string: the definition Backtick stands  *)
(* for that character.                                                     *)
(***************************************************************************)
EXTENDS Integers, Sequences, FiniteSets, TLC

VARIABLES
    text,        \* the argument of renderMarkdown / stripMarkdown
    source,      \* renderMarkdown: the working string `source`
    codeBlocks,  \* renderMarkdown: the store `codeBlocks`
    lines,       \* renderMarkdown: `lines`
    blocks,      \* renderMarkdown: `blocks`
    i,           \* renderMarkdown: the line cursor `i` (0-based, as in the code)
    html,        \* renderMarkdown: the result `html`
    pc,          \* position of the call in the function body
    applied,     \* history: one record per iteration of the scan loop
    plain,       \* stripMarkdown: the working string of the chain of replaces
    first,       \* stripMarkdown: <<r>> once a call has returned r, <<>> before
    calls,       \* the other calls of renderMarkdown, each with its own locals
    baseOrUrl,   \* resolveEndpoint: the argument `baseOrUrl`
    path,        \* resolveEndpoint: the argument `path`
    cleaned,     \* resolveEndpoint: `cleaned`
    resolved,    \* resolveEndpoint: the string returned
    currentRequestId,        \* context panel: `currentRequestId`
    cancelledRequestId,      \* context panel: `cancelledRequestId`
    currentAbortController,  \* context panel: 0 for null, r for the controller made by request r
    aborted,                 \* the controllers whose abort() was called
    abortSupported,          \* getAbortController() returns a constructor
    chatHistory,             \* the stored conversation of the item: its messages in order
    messages,                \* messages[r]: the assistantMessage object of request r
    requests,                \* requests[r]: where the call of sendQuestion number r is
    refreshQueued,           \* the requests whose 50 ms refresh timer is pending
    chatBox,                 \* what refreshChat wrote into the chat box last
    inputDisabled,           \* inputBox.disabled
    sendShown,               \* sendBtn.style.display is not "none"
    sendDisabled,            \* sendBtn.disabled
    cancelShown,             \* cancelBtn.style.display is not "none"
    quickDisabled,           \* btn.disabled of the quick-action buttons
    status                   \* the text of the status line

apiVars == <<baseOrUrl, path, cleaned, resolved>>

panelVars ==
    <<currentRequestId, cancelledRequestId, currentAbortController, aborted, abortSupported,
      chatHistory, messages, requests, refreshQueued, chatBox, inputDisabled, sendShown,
      sendDisabled, cancelShown, quickDisabled, status>>

vars ==
    <<text, source, codeBlocks, lines, blocks, i, html, pc, applied, plain, first, calls,
      apiVars, panelVars>>

(***************************************************************************)
(* Characters and character classes of the regular expressions.            *)
(***************************************************************************)
Backtick == "BACKTICK"

Whitespace == {" ", "\t", "\n", "\r"}

LineTerminators == {"\n", "\r"}

Digits == <<"0", "1", "2", "3", "4", "5", "6", "7", "8", "9">>

DigitChars == {Digits[k] : k \in 1..10}

WordChars ==
    DigitChars \cup {"_"} \cup
    {"a", "b", "c", "d", "e", "f", "g", "h", "i", "j", "k", "l", "m", "n", "o",
     "p", "q", "r", "s", "t", "u", "v", "w", "x", "y", "z"} \cup
    {"A", "B", "C", "D", "E", "F", "G", "H", "I", "J", "K", "L", "M", "N", "O",
     "P", "Q", "R", "S", "T", "U", "V", "W", "X", "Y", "Z"}

(***************************************************************************)
(* String primitives.                                                      *)
(***************************************************************************)
StartsWithAt(s, p, pat) ==
    /\ p >= 1
    /\ p + Len(pat) - 1 <= Len(s)
    /\ SubSeq(s, p, p + Len(pat) - 1) = pat

StartsWith(s, pat) == StartsWithAt(s, 1, pat)

From(s, p) == SubSeq(s, p, Len(s))

Includes(s, c) == \E k \in 1..Len(s) : s[k] = c

Min(S) == CHOOSE x \in S : \A y \in S : x <= y

\* Array.prototype.join: the strings of ss with sep between neighbours (the
\* sequence is halved at each level, which keeps the evaluation shallow).
RECURSIVE Join(_, _)
Join(ss, sep) ==
    IF ss = <<>> THEN <<>>
    ELSE IF Len(ss) = 1 THEN ss[1]
    ELSE LET h == Len(ss) \div 2
         IN  Join(SubSeq(ss, 1, h), sep) \o sep \o Join(SubSeq(ss, h + 1, Len(ss)), sep)

Concat(ss) == Join(ss, <<>>)

\* Smallest q >= p at which pat occurs in s, 0 when there is none.
FindFrom(s, pat, p) ==
    LET found == {q \in p..(Len(s) - Len(pat) + 1) : StartsWithAt(s, q, pat)}
    IN  IF found = {} THEN 0 ELSE Min(found)

\* As FindFrom, but the characters passed over must not be line terminators
\* (the `.` of the regular expressions).
FindOnLine(s, pat, p) ==
    LET q == FindFrom(s, pat, p)
    IN  IF q # 0 /\ \A r \in p..(q - 1) : s[r] \notin LineTerminators THEN q ELSE 0

\* First index >= p whose character is in the class cs (Len(s)+1 at the end).
SkipTo(s, cs, p) ==
    IF p > Len(s) THEN p
    ELSE CHOOSE q \in p..(Len(s) + 1) :
            /\ q = Len(s) + 1 \/ s[q] \in cs
            /\ \A r \in p..(q - 1) : s[r] \notin cs

\* First index >= p whose character is not in the class cs (Len(s)+1 at the end).
SkipClass(s, cs, p) ==
    IF p > Len(s) THEN p
    ELSE CHOOSE q \in p..(Len(s) + 1) :
            /\ q = Len(s) + 1 \/ s[q] \notin cs
            /\ \A r \in p..(q - 1) : s[r] \in cs

\* Last index <= p whose character is not in the class cs (0 when none).
SkipClassBack(s, cs, p) ==
    IF p < 1 THEN 0
    ELSE CHOOSE q \in 0..p :
            /\ q = 0 \/ s[q] \notin cs
            /\ \A r \in (q + 1)..p : s[r] \in cs

\* String.prototype.trim
Trim(s) ==
    LET a == SkipClass(s, Whitespace, 1)
        b == SkipClassBack(s, Whitespace, Len(s))
    IN  IF a > b THEN <<>> ELSE SubSeq(s, a, b)

\* `^` of a regular expression with the m flag
AtLineStart(s, p) == p = 1 \/ s[p - 1] \in LineTerminators

\* A regular expression match at one position: whether it matched, the index
\* after the match, and the text that replaces it.
NoMatch == [ok |-> FALSE, end |-> 0, out |-> <<>>]

Matched(e, o) == [ok |-> TRUE, end |-> e, out |-> o]

\* The matches of an expression in s are given as ms, the match at each
\* position of s.  The positions at which the expression matches:
MatchStarts(ms) == {q \in DOMAIN ms : ms[q].ok}

\* String.prototype.replace with a /g expression, from position p on: the
\* leftmost match at or after p is replaced, the search resumes after it, the
\* characters between matches are copied.
RECURSIVE ReplaceFrom(_, _, _)
ReplaceFrom(s, ms, p) ==
    LET ahead == {q \in MatchStarts(ms) : q >= p}
    IN  IF ahead = {} THEN From(s, p)
        ELSE LET q == Min(ahead)
             IN  SubSeq(s, p, q - 1) \o ms[q].out \o ReplaceFrom(s, ms, ms[q].end)

ReplaceAll(s, ms) == ReplaceFrom(s, ms, 1)

RECURSIVE NumToStr(_)
NumToStr(n) ==
    IF n < 10 THEN <<Digits[n + 1]>>
    ELSE NumToStr(n \div 10) \o <<Digits[(n % 10) + 1]>>

DigitVal(c) == (CHOOSE k \in 1..10 : Digits[k] = c) - 1

\* Number(idx) for a string of decimal digits
RECURSIVE StrToNum(_)
StrToNum(ds) ==
    IF ds = <<>> THEN 0
    ELSE 10 * StrToNum(SubSeq(ds, 1, Len(ds) - 1)) + DigitVal(ds[Len(ds)])

(***************************************************************************)
(* escapeHtml                                                              *)
(***************************************************************************)
\* C4, mutant: the replace of the apostrophe is left out of the chain.
EscapeCharButApostrophe(c) ==
    CASE c = "&" -> <<"&", "a", "m", "p", ";">>
      [] c = "<" -> <<"&", "l", "t", ";">>
      [] c = ">" -> <<"&", "g", "t", ";">>
      [] c = "\"" -> <<"&", "q", "u", "o", "t", ";">>
      [] OTHER -> <<c>>

EscapeChar(c) ==
    CASE c = "&" -> <<"&", "a", "m", "p", ";">>
      [] c = "<" -> <<"&", "l", "t", ";">>
      [] c = ">" -> <<"&", "g", "t", ";">>
      [] c = "\"" -> <<"&", "q", "u", "o", "t", ";">>
      [] c = "'" -> <<"&", "#", "0", "3", "9", ";">>
      [] OTHER -> <<c>>

escapeHtml(s) == Concat([k \in 1..Len(s) |-> EscapeChar(s[k])])

(***************************************************************************)
(* renderMarkdown, the code-block extractor.                               *)
(***************************************************************************)
\* `<pre${langClass}><code>${escaped}</code></pre>`
CodeBlockHtml(lang, code) ==
    <<"<", "p", "r", "e">>
    \o (IF lang # <<>> THEN <<" ", "c", "l", "a", "s", "s", "=", "\"", "l", "a", "n", "g", "-">> \o lang \o <<"\"">> ELSE <<>>)
    \o <<">", "<", "c", "o", "d", "e", ">">> \o escapeHtml(Trim(code)) \o <<"<", "/", "c", "o", "d", "e", ">", "<", "/", "p", "r", "e", ">">>

\* `@@BLOCK${codeBlocks.length - 1}@@`, n the index of the block just pushed
Placeholder(n) == <<"@", "@", "B", "L", "O", "C", "K">> \o NumToStr(n) \o <<"@", "@">>

\* The match of the fence expression at p: three backticks, a greedy word
\* (lang), an optional newline, a lazy body (code), three backticks.  The word
\* and the newline are greedy and
\* nothing they give back can start the closing fence, so the body runs from
\* after them to the first closing fence.
FenceMatch(s, p) ==
    IF ~StartsWithAt(s, p, <<Backtick, Backtick, Backtick>>)
    THEN [ok |-> FALSE, end |-> 0, lang |-> <<>>, code |-> <<>>]
    ELSE LET l == SkipClass(s, WordChars, p + 3)
             b == IF l <= Len(s) /\ s[l] = "\n" THEN l + 1 ELSE l
             c == FindFrom(s, <<Backtick, Backtick, Backtick>>, b)
         IN  IF c = 0
             THEN [ok |-> FALSE, end |-> 0, lang |-> <<>>, code |-> <<>>]
             ELSE [ok |-> TRUE, end |-> c + 3,
                   lang |-> SubSeq(s, p + 3, l - 1), code |-> SubSeq(s, b, c - 1)]

\* The fenced spans the /g replace finds from position p on, in order.
\* starts = the positions at which the fence expression matches.
RECURSIVE FencesFrom(_, _, _)
FencesFrom(s, starts, p) ==
    LET ahead == {q \in starts : q >= p}
    IN  IF ahead = {} THEN <<>>
        ELSE LET q == Min(ahead)
                 m == FenceMatch(s, q)
             IN  <<[start |-> q, end |-> m.end, lang |-> m.lang, code |-> m.code]>>
                 \o FencesFrom(s, starts, m.end)

Fences(s) == FencesFrom(s, {q \in 1..Len(s) : FenceMatch(s, q).ok}, 1)

\* The replace callback, called once per fenced span in order: the k-th call
\* pushes the code block and returns the placeholder of index k - 1.
ExtractCodeBlocks(s) ==
    LET fs == Fences(s)
        n == Len(fs)
        gap(k) == SubSeq(s, IF k = 1 THEN 1 ELSE fs[k - 1].end,
                            IF k > n THEN Len(s) ELSE fs[k].start - 1)
    IN  [source |->
            Concat([k \in 1..(2 * n + 1) |->
                      IF k % 2 = 1 THEN gap((k + 1) \div 2)
                      ELSE Placeholder((k \div 2) - 1)]),
         codeBlocks |-> [k \in 1..n |-> CodeBlockHtml(fs[k].lang, fs[k].code)]]

(***************************************************************************)
(* renderMarkdown, the inline passes.                                      *)
(***************************************************************************)
\* The end (index after the last @) of a /@@BLOCK\d+@@/ match at p, 0 when none.
PlaceholderEnd(s, p) ==
    IF ~StartsWithAt(s, p, <<"@", "@", "B", "L", "O", "C", "K">>) THEN 0
    ELSE LET d == SkipClass(s, DigitChars, p + 7)
         IN  IF d > p + 7 /\ StartsWithAt(s, d, <<"@", "@">>) THEN d + 2 ELSE 0

\* source.replace(/(@@BLOCK\d+@@)/g, "\n$1\n")
IsolateMatch(s, p) ==
    LET e == PlaceholderEnd(s, p)
    IN  IF e = 0 THEN NoMatch
        ELSE Matched(e, <<"\n">> \o SubSeq(s, p, e - 1) \o <<"\n">>)

IsolatePlaceholders(s) == ReplaceAll(s, [q \in 1..Len(s) |-> IsolateMatch(s, q)])

\* source.replace(/`([^`]+)`/g, "<code>$1</code>")
InlineCodeMatch(s, p) ==
    IF s[p] # Backtick THEN NoMatch
    ELSE LET q == SkipTo(s, {Backtick}, p + 1)
         IN  IF q > p + 1 /\ q <= Len(s)
             THEN Matched(q + 1, <<"<", "c", "o", "d", "e", ">">> \o SubSeq(s, p + 1, q - 1) \o <<"<", "/", "c", "o", "d", "e", ">">>)
             ELSE NoMatch

InlineCode(s) == ReplaceAll(s, [q \in 1..Len(s) |-> InlineCodeMatch(s, q)])

\* /^MARKER(.+)$/gm -> open $1 close
HeaderMatch(s, p, marker, open, close) ==
    IF ~(AtLineStart(s, p) /\ StartsWithAt(s, p, marker)) THEN NoMatch
    ELSE LET a == p + Len(marker)
             e == SkipTo(s, LineTerminators, a)
         IN  IF e > a THEN Matched(e, open \o SubSeq(s, a, e - 1) \o close)
             ELSE NoMatch

HeaderPass(s, marker, open, close) ==
    ReplaceAll(s, [q \in 1..Len(s) |-> HeaderMatch(s, q, marker, open, close)])

\* the three header replaces, `### ` first
Headers(s) ==
    LET s4 == HeaderPass(s, <<"#", "#", "#", " ">>, <<"<", "h", "4", ">">>, <<"<", "/", "h", "4", ">">>)
        s3 == HeaderPass(s4, <<"#", "#", " ">>, <<"<", "h", "3", ">">>, <<"<", "/", "h", "3", ">">>)
    IN  HeaderPass(s3, <<"#", " ">>, <<"<", "h", "2", ">">>, <<"<", "/", "h", "2", ">">>)

\* /DELIM(.+?)DELIM/g -> open $1 close: at least one character that is no line
\* terminator, then the first closing delimiter on the same line.
WrapMatch(s, p, delim, open, close) ==
    IF ~StartsWithAt(s, p, delim) THEN NoMatch
    ELSE LET a == p + Len(delim)
         IN  IF a > Len(s) \/ s[a] \in LineTerminators THEN NoMatch
             ELSE LET q == FindOnLine(s, delim, a + 1)
                  IN  IF q = 0 THEN NoMatch
                      ELSE Matched(q + Len(delim), open \o SubSeq(s, a, q - 1) \o close)

WrapPass(s, delim, open, close) ==
    ReplaceAll(s, [q \in 1..Len(s) |-> WrapMatch(s, q, delim, open, close)])

\* The five replaces with the double asterisk tried before the triple one.
EmphasisDoubleBeforeTriple(s) ==
    LET s1 == WrapPass(s, <<"*", "*">>, <<"<", "s", "t", "r", "o", "n", "g", ">">>, <<"<", "/", "s", "t", "r", "o", "n", "g", ">">>)
        s2 == WrapPass(s1, <<"*", "*", "*">>, <<"<", "s", "t", "r", "o", "n", "g", ">", "<", "e", "m", ">">>, <<"<", "/", "e", "m", ">", "<", "/", "s", "t", "r", "o", "n", "g", ">">>)
        s3 == WrapPass(s2, <<"*">>, <<"<", "e", "m", ">">>, <<"<", "/", "e", "m", ">">>)
        s4 == WrapPass(s3, <<"_", "_">>, <<"<", "s", "t", "r", "o", "n", "g", ">">>, <<"<", "/", "s", "t", "r", "o", "n", "g", ">">>)
    IN  WrapPass(s4, <<"_">>, <<"<", "e", "m", ">">>, <<"<", "/", "e", "m", ">">>)

\* the five bold/italic replaces, in the order of the source
Emphasis(s) ==
    LET s1 == WrapPass(s, <<"*", "*", "*">>, <<"<", "s", "t", "r", "o", "n", "g", ">", "<", "e", "m", ">">>, <<"<", "/", "e", "m", ">", "<", "/", "s", "t", "r", "o", "n", "g", ">">>)
        s2 == WrapPass(s1, <<"*", "*">>, <<"<", "s", "t", "r", "o", "n", "g", ">">>, <<"<", "/", "s", "t", "r", "o", "n", "g", ">">>)
        s3 == WrapPass(s2, <<"*">>, <<"<", "e", "m", ">">>, <<"<", "/", "e", "m", ">">>)
        s4 == WrapPass(s3, <<"_", "_">>, <<"<", "s", "t", "r", "o", "n", "g", ">">>, <<"<", "/", "s", "t", "r", "o", "n", "g", ">">>)
    IN  WrapPass(s4, <<"_">>, <<"<", "e", "m", ">">>, <<"<", "/", "e", "m", ">">>)

\* source.replace(/\[([^\]]+)\]\(([^)]+)\)/g, ...): the anchor takes $2 as href, $1 as content
LinkMatch(s, p) ==
    IF s[p] # "[" THEN NoMatch
    ELSE LET r == SkipTo(s, {"]"}, p + 1)
         IN  IF ~(r > p + 1 /\ r + 1 <= Len(s) /\ s[r + 1] = "(") THEN NoMatch
             ELSE LET u == SkipTo(s, {")"}, r + 2)
                  IN  IF u > r + 2 /\ u <= Len(s)
                      THEN Matched(u + 1,
                                   <<"<", "a", " ", "h", "r", "e", "f", "=", "\"">> \o SubSeq(s, r + 2, u - 1)
                                   \o <<"\"", " ", "t", "a", "r", "g", "e", "t", "=", "\"", "_", "b", "l", "a", "n", "k", "\"", " ", "r", "e", "l", "=", "\"", "n", "o", "o", "p", "e", "n", "e", "r", "\"", ">">>
                                   \o SubSeq(s, p + 1, r - 1) \o <<"<", "/", "a", ">">>)
                      ELSE NoMatch

Links(s) == ReplaceAll(s, [q \in 1..Len(s) |-> LinkMatch(s, q)])

\* source.split(/\r?\n/)
RECURSIVE SplitLines(_)
SplitLines(s) ==
    LET n == SkipTo(s, {"\n"}, 1)
    IN  IF n > Len(s) THEN <<s>>
        ELSE LET e == IF n > 1 /\ s[n - 1] = "\r" THEN n - 2 ELSE n - 1
             IN  <<SubSeq(s, 1, e)>> \o SplitLines(From(s, n + 1))

(***************************************************************************)
(* renderMarkdown, the block segmenter: the predicates of the scan loop.   *)
(* Each takes the line as the code passes it (trimmed or not).             *)
(***************************************************************************)
\* /^@@BLOCK\d+@@$/.test(t)
IsPlaceholderLine(t) == PlaceholderEnd(t, 1) = Len(t) + 1

\* /^---$/.test(t)
IsRuleLine(t) == t = <<"-", "-", "-">>

\* C10, mutant: the scan knows the tag of the first tier only.
IsHeadingLineOfFirstTier(t) == StartsWith(t, <<"<", "h", "2", ">">>)

\* /^<h[234]>/.test(t)
IsHeadingLine(t) ==
    StartsWith(t, <<"<", "h", "2", ">">>) \/ StartsWith(t, <<"<", "h", "3", ">">>) \/ StartsWith(t, <<"<", "h", "4", ">">>)

\* /^&gt; /.test(t), t.startsWith("&gt; ")
IsQuoteLine(t) == StartsWith(t, <<"&", "g", "t", ";", " ">>)

isTableRow(value) == Includes(value, "|") /\ ~IsHeadingLine(Trim(value))

\* /^[\s|:-]+$/.test(value.trim()) && value.includes("-")
isTableDivider(value) ==
    /\ Trim(value) # <<>>
    /\ \A k \in 1..Len(Trim(value)) : Trim(value)[k] \in Whitespace \cup {"|", ":", "-"}
    /\ Includes(value, "-")

\* /^(\d+\.)\s+/.test(t)
IsOrderedLine(t) ==
    LET d == SkipClass(t, DigitChars, 1)
    IN  d > 1 /\ d + 1 <= Len(t) /\ t[d] = "." /\ t[d + 1] \in Whitespace

\* /^[-*]\s+/.test(t)
IsUnorderedLine(t) == Len(t) >= 2 /\ t[1] \in {"-", "*"} /\ t[2] \in Whitespace

\* t.replace(/^(\d+\.)\s+|^[-*]\s+/, "")
StripMarker(t) ==
    IF IsOrderedLine(t)
    THEN From(t, SkipClass(t, Whitespace, SkipClass(t, DigitChars, 1) + 1))
    ELSE IF IsUnorderedLine(t) THEN From(t, SkipClass(t, Whitespace, 2))
    ELSE t

\* row.split("|")
RECURSIVE SplitOn(_, _)
SplitOn(s, c) ==
    LET n == SkipTo(s, {c}, 1)
    IN  IF n > Len(s) THEN <<s>>
        ELSE <<SubSeq(s, 1, n - 1)>> \o SplitOn(From(s, n + 1), c)

\* row.split("|").map(trim).filter(not an empty first or last cell)
readCells(row) ==
    LET parts == SplitOn(row, "|")
        cells == [k \in 1..Len(parts) |-> Trim(parts[k])]
        n == Len(cells)
        a == IF cells[1] = <<>> THEN 2 ELSE 1
        b == IF cells[n] = <<>> THEN n - 1 ELSE n
    IN  IF a > b THEN <<>> ELSE SubSeq(cells, a, b)

\* The condition of the paragraph loop without its test for a blank line.
IsParagraphLineOrBlank(l) ==
    /\ ~IsPlaceholderLine(Trim(l))
    /\ ~IsRuleLine(Trim(l))
    /\ ~IsHeadingLine(Trim(l))
    /\ ~IsQuoteLine(Trim(l))
    /\ ~IsOrderedLine(Trim(l))
    /\ ~IsUnorderedLine(Trim(l))

\* the condition of the paragraph loop on lines[i]
IsParagraphLine(l) ==
    /\ Trim(l) # <<>>
    /\ ~IsPlaceholderLine(Trim(l))
    /\ ~IsRuleLine(Trim(l))
    /\ ~IsHeadingLine(Trim(l))
    /\ ~IsQuoteLine(Trim(l))
    /\ ~IsOrderedLine(Trim(l))
    /\ ~IsUnorderedLine(Trim(l))

\* C1, mutant: the blockquote loop tests the line without trimming it, so
\* that a quote line with leading blanks enters the branch and leaves it with
\* the cursor where it was.
IsQuoteRunLineUntrimmed(l) == IsQuoteLine(l)

\* the condition of the blockquote loop on lines[i]
IsQuoteRunLine(l) == IsQuoteLine(Trim(l))

\* C6, mutant: the list loop takes the lines of either marker class.
IsListRunLineOfAnyClass(l, isOrdered) ==
    IsOrderedLine(Trim(l)) \/ IsUnorderedLine(Trim(l))

\* the condition of the list loop on lines[i]
IsListRunLine(l, isOrdered) ==
    IF isOrdered THEN IsOrderedLine(Trim(l)) ELSE IsUnorderedLine(Trim(l))

\* the condition of the table-body loop on lines[i]
IsBodyRow(l) == Trim(l) # <<>> /\ isTableRow(l)

\* Where an inner `while (i < lines.length && cond(lines[i])) i++` leaves the
\* cursor when it starts at k (0-based); ok[n] is the condition on the n-th line.
RECURSIVE RunEnd(_, _)
RunEnd(ok, k) ==
    IF k + 1 \in DOMAIN ok /\ ok[k + 1] THEN RunEnd(ok, k + 1) ELSE k

\* The tests of the loop body with the list test made before the table test.
RuleAtWithListBeforeTable(ls, k) ==
    LET trimmed == Trim(ls[k + 1])
    IN  IF trimmed = <<>> THEN "blank"
        ELSE IF IsPlaceholderLine(trimmed) THEN "placeholder"
        ELSE IF IsRuleLine(trimmed) THEN "rule"
        ELSE IF IsHeadingLine(trimmed) THEN "heading"
        ELSE IF IsQuoteLine(trimmed) THEN "blockquote"
        ELSE IF IsOrderedLine(trimmed) \/ IsUnorderedLine(trimmed) THEN "list"
        ELSE IF /\ isTableRow(trimmed)
                /\ k + 1 < Len(ls)
                /\ isTableDivider(Trim(ls[k + 2])) THEN "table"
        ELSE "paragraph"

\* The tests of the loop body with the first one made on the line as it is
\* instead of on the trimmed line.
RuleAtWithBlankTestUntrimmed(ls, k) ==
    LET trimmed == Trim(ls[k + 1])
    IN  IF ls[k + 1] = <<>> THEN "blank"
        ELSE IF IsPlaceholderLine(trimmed) THEN "placeholder"
        ELSE IF IsRuleLine(trimmed) THEN "rule"
        ELSE IF IsHeadingLine(trimmed) THEN "heading"
        ELSE IF IsQuoteLine(trimmed) THEN "blockquote"
        ELSE IF /\ isTableRow(trimmed)
                /\ k + 1 < Len(ls)
                /\ isTableDivider(Trim(ls[k + 2])) THEN "table"
        ELSE IF IsOrderedLine(trimmed) \/ IsUnorderedLine(trimmed) THEN "list"
        ELSE "paragraph"

\* The rule the loop body applies with the cursor at k: the first test of the
\* body, in the order of the source, that lines[k] passes.
RuleAt(ls, k) ==
    LET trimmed == Trim(ls[k + 1])
    IN  IF trimmed = <<>> THEN "blank"
        ELSE IF IsPlaceholderLine(trimmed) THEN "placeholder"
        ELSE IF IsRuleLine(trimmed) THEN "rule"
        ELSE IF IsHeadingLine(trimmed) THEN "heading"
        ELSE IF IsQuoteLine(trimmed) THEN "blockquote"
        ELSE IF /\ isTableRow(trimmed)
                /\ k + 1 < Len(ls)
                /\ isTableDivider(Trim(ls[k + 2])) THEN "table"
        ELSE IF IsOrderedLine(trimmed) \/ IsUnorderedLine(trimmed) THEN "list"
        ELSE "paragraph"

Wrap(open, s, close) == open \o s \o close

\* The blockquote with the marker cut from the lines as they are, untrimmed.
QuoteBlockOfUntrimmedLines(ls, from, to) ==
    Wrap(<<"<", "b", "l", "o", "c", "k", "q", "u", "o", "t", "e", ">">>,
         Join([k \in 1..(to - from) |-> From(ls[from + k], 6)], <<"<", "b", "r", ">">>),
         <<"<", "/", "b", "l", "o", "c", "k", "q", "u", "o", "t", "e", ">">>)

\* <blockquote>${quoteLines.join("<br>")}</blockquote> for lines[from..to-1]
QuoteBlock(ls, from, to) ==
    Wrap(<<"<", "b", "l", "o", "c", "k", "q", "u", "o", "t", "e", ">">>,
         Join([k \in 1..(to - from) |-> From(Trim(ls[from + k]), 6)], <<"<", "b", "r", ">">>),
         <<"<", "/", "b", "l", "o", "c", "k", "q", "u", "o", "t", "e", ">">>)

\* <tr>${cells.map((c) => `<td>${c}</td>`).join("")}</tr>
RowHtml(cells, open, close) ==
    Wrap(<<"<", "t", "r", ">">>, Concat([k \in 1..Len(cells) |-> Wrap(open, cells[k], close)]), <<"<", "/", "t", "r", ">">>)

\* the table block for header lines[from], divider lines[from+1], rows up to to-1
TableBlock(ls, from, to) ==
    LET headerHtml == RowHtml(readCells(ls[from + 1]), <<"<", "t", "h", ">">>, <<"<", "/", "t", "h", ">">>)
        rows == [k \in 1..(to - from - 2) |->
                    RowHtml(readCells(ls[from + 2 + k]), <<"<", "t", "d", ">">>, <<"<", "/", "t", "d", ">">>)]
        bodyHtml == IF Len(rows) # 0
                    THEN Wrap(<<"<", "t", "b", "o", "d", "y", ">">>, Concat(rows), <<"<", "/", "t", "b", "o", "d", "y", ">">>) ELSE <<>>
    IN  <<"<", "t", "a", "b", "l", "e", ">", "<", "t", "h", "e", "a", "d", ">">> \o headerHtml \o <<"<", "/", "t", "h", "e", "a", "d", ">">> \o bodyHtml \o <<"<", "/", "t", "a", "b", "l", "e", ">">>

\* <ol>/<ul> with one <li> per line of lines[from..to-1]
ListBlock(ls, from, to, isOrdered) ==
    LET items == [k \in 1..(to - from) |->
                    Wrap(<<"<", "l", "i", ">">>, StripMarker(Trim(ls[from + k])), <<"<", "/", "l", "i", ">">>)]
    IN  IF isOrdered THEN Wrap(<<"<", "o", "l", ">">>, Concat(items), <<"<", "/", "o", "l", ">">>)
        ELSE Wrap(<<"<", "u", "l", ">">>, Concat(items), <<"<", "/", "u", "l", ">">>)

\* C7, mutant: the paragraph loop pushes the trimmed line.
ParagraphBlockOfTrimmedLines(ls, from, to) ==
    Wrap(<<"<", "p", ">">>, Join([k \in 1..(to - from) |-> Trim(ls[from + k])], <<"<", "b", "r", ">">>), <<"<", "/", "p", ">">>)

\* <p>${paraLines.join("<br>")}</p> for lines[from..to-1]
ParagraphBlock(ls, from, to) ==
    Wrap(<<"<", "p", ">">>, Join([k \in 1..(to - from) |-> ls[from + k]], <<"<", "b", "r", ">">>), <<"<", "/", "p", ">">>)

(***************************************************************************)
(* renderMarkdown, the reassembler.                                        *)
(***************************************************************************)
\* html.replace(/@@BLOCK(\d+)@@/g, (_match, idx) => codeBlocks[Number(idx)] || "")
RestoreMatch(s, p, cbs) ==
    LET e == PlaceholderEnd(s, p)
        idx == StrToNum(SubSeq(s, p + 7, e - 3))
    IN  IF e = 0 THEN NoMatch
        ELSE Matched(e, IF idx < Len(cbs) THEN cbs[idx + 1] ELSE <<>>)

Reassemble(bs, cbs) ==
    LET joined == Join(bs, <<"\n">>)
    IN  ReplaceAll(joined, [q \in 1..Len(joined) |-> RestoreMatch(joined, q, cbs)])

(***************************************************************************)
(* stripMarkdown: the chain of replaces.                                   *)
(***************************************************************************)
\* the expression of the first replace: three backticks, a lazy body, three backticks
FenceSpanMatch(s, p) ==
    IF ~StartsWithAt(s, p, <<Backtick, Backtick, Backtick>>) THEN NoMatch
    ELSE LET c == FindFrom(s, <<Backtick, Backtick, Backtick>>, p + 3)
         IN  IF c = 0 THEN NoMatch ELSE Matched(c + 3, <<>>)

\* /`([^`]+)`/g -> $1
CodeSpanMatch(s, p) ==
    IF s[p] # Backtick THEN NoMatch
    ELSE LET q == SkipTo(s, {Backtick}, p + 1)
         IN  IF q > p + 1 /\ q <= Len(s) THEN Matched(q + 1, SubSeq(s, p + 1, q - 1))
             ELSE NoMatch

\* /#{1,6}\s+/g: a match at p takes the hashes from p up to the whitespace, so
\* at most six hashes may stand between p and the whitespace.
HashMatch(s, p) ==
    IF s[p] # "#" THEN NoMatch
    ELSE LET h == SkipClass(s, {"#"}, p)
         IN  IF h - p <= 6 /\ h <= Len(s) /\ s[h] \in Whitespace
             THEN Matched(SkipClass(s, Whitespace, h), <<>>)
             ELSE NoMatch

\* /^[-*] /gm
ListMarkerMatch(s, p) ==
    IF AtLineStart(s, p) /\ s[p] \in {"-", "*"} /\ StartsWithAt(s, p + 1, <<" ">>)
    THEN Matched(p + 2, <<>>) ELSE NoMatch

\* /^\d+\. /gm
NumberMarkerMatch(s, p) ==
    LET d == SkipClass(s, DigitChars, p)
    IN  IF AtLineStart(s, p) /\ d > p /\ StartsWithAt(s, d, <<".", " ">>)
        THEN Matched(d + 2, <<>>) ELSE NoMatch

\* /^> /gm
QuoteMarkerMatch(s, p) ==
    IF AtLineStart(s, p) /\ StartsWithAt(s, p, <<">", " ">>) THEN Matched(p + 2, <<>>)
    ELSE NoMatch

\* /\[([^\]]+)\]\([^)]+\)/g -> $1
LinkTextMatch(s, p) ==
    LET m == LinkMatch(s, p)
        r == SkipTo(s, {"]"}, p + 1)
    IN  IF m.ok THEN Matched(m.end, SubSeq(s, p + 1, r - 1)) ELSE NoMatch

StripFences(s) == ReplaceAll(s, [q \in 1..Len(s) |-> FenceSpanMatch(s, q)])

StripCodeSpans(s) == ReplaceAll(s, [q \in 1..Len(s) |-> CodeSpanMatch(s, q)])

StripHashes(s) == ReplaceAll(s, [q \in 1..Len(s) |-> HashMatch(s, q)])

\* the five bold/italic replaces, each keeping $1
StripEmphasis(s) ==
    LET s1 == WrapPass(s, <<"*", "*", "*">>, <<>>, <<>>)
        s2 == WrapPass(s1, <<"*", "*">>, <<>>, <<>>)
        s3 == WrapPass(s2, <<"*">>, <<>>, <<>>)
        s4 == WrapPass(s3, <<"_", "_">>, <<>>, <<>>)
    IN  WrapPass(s4, <<"_">>, <<>>, <<>>)

StripLinks(s) == ReplaceAll(s, [q \in 1..Len(s) |-> LinkTextMatch(s, q)])

\* the three line-prefix replaces: list items, numbered lists, blockquotes
StripMarkers(s) ==
    LET s1 == ReplaceAll(s, [q \in 1..Len(s) |-> ListMarkerMatch(s, q)])
        s2 == ReplaceAll(s1, [q \in 1..Len(s1) |-> NumberMarkerMatch(s1, q)])
    IN  ReplaceAll(s2, [q \in 1..Len(s2) |-> QuoteMarkerMatch(s2, q)])

stripMarkdown(t) ==
    Trim(StripMarkers(StripLinks(StripEmphasis(StripHashes(StripCodeSpans(StripFences(t)))))))

\* No call of resolveEndpoint has been made.
NoEndpointCall == baseOrUrl = <<>> /\ path = <<>> /\ cleaned = <<>> /\ resolved = <<>>

\* The context panel as the module and buildUI leave it for an item: no
\* request yet, no stored conversation, the input box, the Send button and the
\* quick-action buttons enabled, Cancel hidden, the status line Ready.
PanelBuilt ==
    /\ currentRequestId = 0
    /\ cancelledRequestId = -1
    /\ currentAbortController = 0
    /\ aborted = {}
    /\ chatHistory = <<>>
    /\ messages = <<>>
    /\ requests = <<>>
    /\ refreshQueued = {}
    /\ chatBox = <<>>
    /\ inputDisabled = FALSE
    /\ sendShown = TRUE
    /\ sendDisabled = FALSE
    /\ cancelShown = FALSE
    /\ quickDisabled = FALSE
    /\ status = "Ready"

\* The panel is not used.
PanelUnused == PanelBuilt /\ abortSupported = TRUE

(***************************************************************************)
(* renderMarkdown as a state machine: one action per statement of the      *)
(* function body, one action per branch of the scan loop.                  *)
(***************************************************************************)
\* The state at the call of renderMarkdown(t).
RenderCall(t) ==
    /\ text = t
    /\ source = <<>>
    /\ codeBlocks = <<>>
    /\ lines = <<>>
    /\ blocks = <<>>
    /\ i = 0
    /\ html = <<>>
    /\ pc = "extract"
    /\ applied = <<>>
    /\ plain = <<>>
    /\ first = <<>>
    /\ calls = <<>>
    /\ NoEndpointCall
    /\ PanelUnused

stripVars == <<plain, first, calls, apiVars, panelVars>>

\* let source = text.replace(fence, ...)
Extract ==
    /\ pc = "extract"
    /\ source' = ExtractCodeBlocks(text).source
    /\ codeBlocks' = ExtractCodeBlocks(text).codeBlocks
    /\ pc' = "escape"
    /\ UNCHANGED <<text, lines, blocks, i, html, applied, stripVars>>

\* source = escapeHtml(source)
EscapeSource ==
    /\ pc = "escape"
    /\ source' = escapeHtml(source)
    /\ pc' = "isolate"
    /\ UNCHANGED <<text, codeBlocks, lines, blocks, i, html, applied, stripVars>>

Isolate ==
    /\ pc = "isolate"
    /\ source' = IsolatePlaceholders(source)
    /\ pc' = "inlineCode"
    /\ UNCHANGED <<text, codeBlocks, lines, blocks, i, html, applied, stripVars>>

InlineCodePass ==
    /\ pc = "inlineCode"
    /\ source' = InlineCode(source)
    /\ pc' = "headers"
    /\ UNCHANGED <<text, codeBlocks, lines, blocks, i, html, applied, stripVars>>

HeadersPass ==
    /\ pc = "headers"
    /\ source' = Headers(source)
    /\ pc' = "emphasis"
    /\ UNCHANGED <<text, codeBlocks, lines, blocks, i, html, applied, stripVars>>

EmphasisPass ==
    /\ pc = "emphasis"
    /\ source' = Emphasis(source)
    /\ pc' = "links"
    /\ UNCHANGED <<text, codeBlocks, lines, blocks, i, html, applied, stripVars>>

LinksPass ==
    /\ pc = "links"
    /\ source' = Links(source)
    /\ pc' = "split"
    /\ UNCHANGED <<text, codeBlocks, lines, blocks, i, html, applied, stripVars>>

\* const lines = source.split(/\r?\n/); const blocks = []; let i = 0
Split ==
    /\ pc = "split"
    /\ lines' = SplitLines(source)
    /\ blocks' = <<>>
    /\ i' = 0
    /\ pc' = "scan"
    /\ UNCHANGED <<text, source, codeBlocks, html, applied, stripVars>>

\* One iteration of `while (i < lines.length)` that applies `rule`, pushes the
\* blocks bs and leaves the cursor at j.  The history `applied` records the
\* rule, the lines [from, to) it consumed and the index of the block it pushed.
Iteration(rule, bs, j) ==
    /\ pc = "scan"
    /\ i < Len(lines)
    /\ RuleAt(lines, i) = rule
    /\ blocks' = blocks \o bs
    /\ i' = j
    /\ applied' = Append(applied, [rule |-> rule, from |-> i, to |-> j,
                                    block |-> IF bs = <<>> THEN 0 ELSE Len(blocks) + 1])
    /\ UNCHANGED <<text, source, codeBlocks, lines, html, pc, stripVars>>

BlankLine == Iteration("blank", <<>>, i + 1)

PlaceholderLine == Iteration("placeholder", <<Trim(lines[i + 1])>>, i + 1)

RuleLine == Iteration("rule", <<<<"<", "h", "r", ">">>>>, i + 1)

HeadingLine == Iteration("heading", <<Trim(lines[i + 1])>>, i + 1)

Blockquote ==
    LET j == RunEnd([n \in 1..Len(lines) |-> IsQuoteRunLine(lines[n])], i)
    IN  Iteration("blockquote", <<QuoteBlock(lines, i, j)>>, j)

Table ==
    LET j == RunEnd([n \in 1..Len(lines) |-> IsBodyRow(lines[n])], i + 2)
    IN  Iteration("table", <<TableBlock(lines, i, j)>>, j)

List ==
    LET isOrdered == IsOrderedLine(Trim(lines[i + 1]))
        j == RunEnd([n \in 1..Len(lines) |-> IsListRunLine(lines[n], isOrdered)], i)
    IN  Iteration("list", <<ListBlock(lines, i, j, isOrdered)>>, j)

Paragraph ==
    LET j == RunEnd([n \in 1..Len(lines) |-> IsParagraphLine(lines[n])], i)
    IN  Iteration("paragraph", <<ParagraphBlock(lines, i, j)>>, j)

\* The return with one store for all calls: the tokens are resolved in the
\* store that was filled last, that of the latest other call if there is one.
RestoreFromSharedStore ==
    /\ pc = "scan"
    /\ ~(i < Len(lines))
    /\ html' = Reassemble(blocks, IF calls = <<>> THEN codeBlocks
                                   ELSE calls[Len(calls)].codeBlocks)
    /\ pc' = "done"
    /\ UNCHANGED <<text, source, codeBlocks, lines, blocks, i, applied, stripVars>>

\* let html = blocks.join("\n"); html = html.replace(placeholder, ...); return html
Restore ==
    /\ pc = "scan"
    /\ ~(i < Len(lines))
    /\ html' = Reassemble(blocks, codeBlocks)
    /\ pc' = "done"
    /\ UNCHANGED <<text, source, codeBlocks, lines, blocks, i, applied, stripVars>>

RenderNext ==
    \/ Extract
    \/ EscapeSource
    \/ Isolate
    \/ InlineCodePass
    \/ HeadersPass
    \/ EmphasisPass
    \/ LinksPass
    \/ Split
    \/ BlankLine
    \/ PlaceholderLine
    \/ RuleLine
    \/ HeadingLine
    \/ Blockquote
    \/ Table
    \/ List
    \/ Paragraph
    \/ Restore

(***************************************************************************)
(* Inputs.  An input is a sequence of at most n pieces of a set P, joined  *)
(* by a separator.                                                         *)
(***************************************************************************)
Gen(Call(_), P, sep, n) == \E k \in 0..n : \E ps \in [1..k -> P] : Call(Join(ps, sep))

\* One input that sends the scan through every rule.
AllRules ==
    <<Backtick, Backtick, Backtick, "j", "s", "\n", "x", "\n", Backtick, Backtick, Backtick, "\n", "-", "-", "-", "\n", "#", " ", "a", "\n", "\n", ">", " ", "a", "\n", "a", "|", "a", "\n", "-", "|", "-", "\n", "a", "|", "a", "\n", "-", " ", "a", "\n", "1", ".", " ", "a", "\n", "a">>

\* Spec: inputs of at most MaxPieces pieces of inline and block syntax.
MaxPieces == 4

Pieces ==
    {<<"a">>, <<" ">>, <<"\n">>, <<"*">>, <<"_">>, <<Backtick>>, <<Backtick, Backtick, Backtick>>, <<"#", " ">>, <<"-", " ">>, <<"|">>, <<"<">>, <<"&">>, <<"[", "a", "]", "(">>, <<")">>}

Init == Gen(RenderCall, Pieces, <<>>, MaxPieces) \/ RenderCall(AllRules)

Spec == Init /\ [][RenderNext]_vars

\* SpecTokens: inputs of at most MaxTokenPieces pieces, among them texts of
\* the form of the placeholder tokens of the extractor.
MaxTokenPieces == 5

TokenPieces == {<<"@", "@", "B", "L", "O", "C", "K", "0", "@", "@">>, <<"@", "@", "B", "L", "O", "C", "K", "1">>, <<"@", "@">>, <<Backtick, Backtick, Backtick>>, <<"a">>, <<"\n">>}

InitTokens == Gen(RenderCall, TokenPieces, <<>>, MaxTokenPieces) \/ RenderCall(AllRules)

SpecTokens == InitTokens /\ [][RenderNext]_vars

\* SpecEscape: inputs of at most MaxEscapePieces pieces, among them the five
\* characters escapeHtml replaces, and one input with these characters in a
\* block of every kind.
MaxEscapePieces == 3

EscapePieces ==
    {<<"&">>, <<"<">>, <<">">>, <<"\"">>, <<"'">>, <<"a">>, <<"\n">>, <<Backtick>>, <<Backtick, Backtick, Backtick>>, <<"*">>, <<"[", "a", "]", "(">>, <<")">>, <<">", " ">>}

EscapeSeed == <<Backtick, Backtick, Backtick, "\n", "<", "&", ">", "\n", Backtick, Backtick, Backtick, "\n", "#", " ", "<", "\n", ">", " ", "\"", "\n", "<", "|", "'", "\n", "-", "|", "-", "\n", "&", "|", ">", "\n", "-", " ", "<", "\n", "1", ".", " ", "\"", "\n", "*", "'", "*", "\n", "\n", "-", "-", "-">>

InitEscape == Gen(RenderCall, EscapePieces, <<>>, MaxEscapePieces) \/ RenderCall(EscapeSeed)

SpecEscape == InitEscape /\ [][RenderNext]_vars

\* SpecHeadings: inputs of at most MaxHeadingLines lines: lines with one to
\* four hash marks, with and without text after them, and their neighbours.
MaxHeadingLines == 3

HeadingLines ==
    {<<>>, <<"a">>, <<"#", " ", "a">>, <<"#", "#", " ", "a">>, <<"#", "#", "#", " ", "a">>, <<"#", "#", "#", "#", " ", "a">>, <<"#", " ">>, <<" ", "#", " ", "a">>, <<"#", " ", "a", "|", "b">>, <<"-", "|", "-">>, <<"-", " ", "a", "|", "b">>,
     <<">", " ", "a">>, <<"#", "#", " ", "*", "a", "*", " ", "\r">>}

InitHeadings ==
    Gen(RenderCall, HeadingLines, <<"\n">>, MaxHeadingLines) \/ RenderCall(AllRules)

SpecHeadings == InitHeadings /\ [][RenderNext]_vars

\* SpecPlain: inputs of at most MaxPlainPieces pieces of text without markdown
\* syntax: letters, spaces and line breaks.
MaxPlainPieces == 5

PlainPieces == {<<"a">>, <<"b", " ", "c">>, <<" ">>, <<"\n">>, <<"\r", "\n">>}

InitPlain == Gen(RenderCall, PlainPieces, <<>>, MaxPlainPieces) \/ RenderCall(AllRules)

SpecPlain == InitPlain /\ [][RenderNext]_vars

\* SpecScan: inputs of at most MaxLines lines, one of each kind the scan tells
\* apart and the lines that satisfy two of its tests.
MaxLines == 3

ScanLines ==
    {<<>>, <<"a">>, <<"-", "-", "-">>, <<"#", " ", "a">>, <<">", " ", "a">>, <<" ", ">", " ", "a">>, <<"a", "|", "b">>, <<"-", "|", "-">>, <<"-", " ", "a">>, <<"*", " ", "a">>, <<"1", ".", " ", "a">>,
     <<"-", " ", "a", "|", "b">>, <<"-", " ", "-">>, <<Backtick, Backtick, Backtick, "x", Backtick, Backtick, Backtick>>}

InitScan == Gen(RenderCall, ScanLines, <<"\n">>, MaxLines) \/ RenderCall(AllRules)

SpecScan == InitScan /\ [][RenderNext]_vars

\* renderMarkdown(t) as a function, for the statements that compare results.
RECURSIVE ScanFrom(_, _)
ScanFrom(ls, k) ==
    IF ~(k < Len(ls)) THEN <<>>
    ELSE LET rule == RuleAt(ls, k)
             isOrdered == IsOrderedLine(Trim(ls[k + 1]))
             j == CASE rule = "blockquote" -> RunEnd([n \in 1..Len(ls) |-> IsQuoteRunLine(ls[n])], k)
                    [] rule = "table" -> RunEnd([n \in 1..Len(ls) |-> IsBodyRow(ls[n])], k + 2)
                    [] rule = "list" -> RunEnd([n \in 1..Len(ls) |-> IsListRunLine(ls[n], isOrdered)], k)
                    [] rule = "paragraph" -> RunEnd([n \in 1..Len(ls) |-> IsParagraphLine(ls[n])], k)
                    [] OTHER -> k + 1
             bs == CASE rule = "blank" -> <<>>
                     [] rule = "rule" -> <<<<"<", "h", "r", ">">>>>
                     [] rule = "blockquote" -> <<QuoteBlock(ls, k, j)>>
                     [] rule = "table" -> <<TableBlock(ls, k, j)>>
                     [] rule = "list" -> <<ListBlock(ls, k, j, isOrdered)>>
                     [] rule = "paragraph" -> <<ParagraphBlock(ls, k, j)>>
                     [] OTHER -> <<Trim(ls[k + 1])>>
         IN  IF j > k THEN bs \o ScanFrom(ls, j) ELSE bs

renderMarkdown(t) ==
    LET ex == ExtractCodeBlocks(t)
        src == Links(Emphasis(Headers(InlineCode(IsolatePlaceholders(escapeHtml(ex.source))))))
    IN  Reassemble(ScanFrom(SplitLines(src), 0), ex.codeBlocks)

(***************************************************************************)
(* stripMarkdown as a state machine: one action per group of replaces, and *)
(* a caller that strips the result once more.                              *)
(***************************************************************************)
renderVars ==
    <<source, codeBlocks, lines, blocks, i, html, applied, calls, apiVars, panelVars>>

\* The state at the call of stripMarkdown(t).
StripCall(t) ==
    /\ text = t
    /\ plain = t
    /\ first = <<>>
    /\ pc = "strip.fences"
    /\ source = <<>>
    /\ codeBlocks = <<>>
    /\ lines = <<>>
    /\ blocks = <<>>
    /\ i = 0
    /\ html = <<>>
    /\ applied = <<>>
    /\ calls = <<>>
    /\ NoEndpointCall
    /\ PanelUnused

StripStep(at, result, next) ==
    /\ pc = at
    /\ plain' = result
    /\ pc' = next
    /\ UNCHANGED <<text, first, renderVars>>

DoStripFences == StripStep("strip.fences", StripFences(plain), "strip.code")

DoStripCodeSpans == StripStep("strip.code", StripCodeSpans(plain), "strip.hashes")

DoStripHashes == StripStep("strip.hashes", StripHashes(plain), "strip.emphasis")

DoStripEmphasis == StripStep("strip.emphasis", StripEmphasis(plain), "strip.links")

DoStripLinks == StripStep("strip.links", StripLinks(plain), "strip.markers")

DoStripMarkers == StripStep("strip.markers", StripMarkers(plain), "strip.trim")

DoStripTrim == StripStep("strip.trim", Trim(plain), "strip.done")

\* The caller passes the returned string to stripMarkdown again.
StripAgain ==
    /\ pc = "strip.done"
    /\ first = <<>>
    /\ first' = <<plain>>
    /\ text' = plain
    /\ pc' = "strip.fences"
    /\ UNCHANGED <<plain, renderVars>>

StripNext ==
    \/ DoStripFences
    \/ DoStripCodeSpans
    \/ DoStripHashes
    \/ DoStripEmphasis
    \/ DoStripLinks
    \/ DoStripMarkers
    \/ DoStripTrim
    \/ StripAgain

MaxStripPieces == 4

StripPieces == {<<"a">>, <<" ">>, <<"\n">>, <<"*">>, <<"_">>, <<Backtick>>, <<"#">>, <<"-", " ">>, <<"1", ".", " ">>, <<">", " ">>, <<"[", "a", "]", "(", "b", ")">>}

StripInit == Gen(StripCall, StripPieces, <<>>, MaxStripPieces)

SpecStrip == StripInit /\ [][StripNext]_vars

(***************************************************************************)
(* Claims.                                                                 *)
(***************************************************************************)
Scanning == pc \in {"scan", "done"}

\* C1: the scan of the block segmenter terminates: every iteration of the loop
\* moves the cursor forward by at least one line, the cursor never passes the
\* end, the iterations consume consecutive ranges of lines (each line index is
\* consumed by exactly one rule application), and the loop ends with the
\* cursor at lines.length.
ScanConsumesEachLineOnce ==
    Scanning =>
        /\ i <= Len(lines)
        /\ Len(applied) <= Len(lines)
        /\ \A k \in 1..Len(applied) :
              /\ applied[k].from < applied[k].to
              /\ applied[k].from = IF k = 1 THEN 0 ELSE applied[k - 1].to
        /\ i = IF applied = <<>> THEN 0 ELSE applied[Len(applied)].to
        /\ pc = "done" => i = Len(lines)

\* C1, witness: a finished scan of three or more lines in which one rule
\* application consumed several lines and another a line with leading blanks.
ScanConsumesEachLineOnceWitness ==
    /\ pc = "done"
    /\ Len(lines) >= 3
    /\ \E k \in 1..Len(applied) : applied[k].to > applied[k].from + 1
    /\ \E k \in 1..Len(applied) :
          applied[k].rule = "blockquote" /\ lines[applied[k].from + 1][1] = " "

Occurs(pat, s) == FindFrom(s, pat, 1) # 0

\* The number of texts of the form of a placeholder token in s, counted as a
\* /g expression finds them (leftmost first, not overlapping).
RECURSIVE TokensFrom(_, _)
TokensFrom(s, p) ==
    LET ahead == {q \in p..Len(s) : PlaceholderEnd(s, q) # 0}
    IN  IF ahead = {} THEN 0
        ELSE 1 + TokensFrom(s, PlaceholderEnd(s, Min(ahead)))

TokenCount(s) == TokensFrom(s, 1)

\* C2: the tokens of the extractor never collide with the input: a text of
\* the form of a token that the user wrote is still in the output (it is
\* neither replaced by code-block markup nor deleted), and every code block
\* the extractor took out is restored.
UserTextNeverTakenForPlaceholder ==
    pc = "done" =>
        /\ TokenCount(text) <= TokenCount(html)
        /\ \A n \in 1..Len(codeBlocks) : Occurs(codeBlocks[n], html)

\* C3: for every fenced code span of the input the output holds, between
\* <code> and </code>, the body of the span trimmed and escaped once, with no
\* inline substitution and no block rule applied to it.
CodeBodyVerbatim ==
    pc = "done" =>
        \A k \in 1..Len(Fences(text)) :
            Occurs(<<"<", "c", "o", "d", "e", ">">> \o escapeHtml(Trim(Fences(text)[k].code)) \o <<"<", "/", "c", "o", "d", "e", ">", "<", "/", "p", "r", "e", ">">>, html)

Count(pat, s) == Cardinality({q \in 1..Len(s) : StartsWithAt(s, q, pat)})

Special == {"&", "<", ">", "\"", "'"}

\* The tags the pipeline writes.  The opening tag of a link is written in two
\* parts around the address, and that of a code block around the language.
GeneratedTags ==
    {<<"<", "p", ">">>, <<"<", "/", "p", ">">>, <<"<", "b", "r", ">">>, <<"<", "h", "r", ">">>, <<"<", "h", "2", ">">>, <<"<", "/", "h", "2", ">">>, <<"<", "h", "3", ">">>, <<"<", "/", "h", "3", ">">>, <<"<", "h", "4", ">">>, <<"<", "/", "h", "4", ">">>,
     <<"<", "s", "t", "r", "o", "n", "g", ">">>, <<"<", "/", "s", "t", "r", "o", "n", "g", ">">>, <<"<", "e", "m", ">">>, <<"<", "/", "e", "m", ">">>, <<"<", "c", "o", "d", "e", ">">>, <<"<", "/", "c", "o", "d", "e", ">">>, <<"<", "p", "r", "e", ">">>, <<"<", "/", "p", "r", "e", ">">>,
     <<"<", "p", "r", "e", " ", "c", "l", "a", "s", "s", "=", "\"", "l", "a", "n", "g", "-">>, <<"\"", ">">>, <<"<", "a", " ", "h", "r", "e", "f", "=", "\"">>, <<"\"", " ", "t", "a", "r", "g", "e", "t", "=", "\"", "_", "b", "l", "a", "n", "k", "\"", " ", "r", "e", "l", "=", "\"", "n", "o", "o", "p", "e", "n", "e", "r", "\"", ">">>, <<"<", "/", "a", ">">>,
     <<"<", "b", "l", "o", "c", "k", "q", "u", "o", "t", "e", ">">>, <<"<", "/", "b", "l", "o", "c", "k", "q", "u", "o", "t", "e", ">">>, <<"<", "u", "l", ">">>, <<"<", "/", "u", "l", ">">>, <<"<", "o", "l", ">">>, <<"<", "/", "o", "l", ">">>, <<"<", "l", "i", ">">>, <<"<", "/", "l", "i", ">">>,
     <<"<", "t", "a", "b", "l", "e", ">">>, <<"<", "/", "t", "a", "b", "l", "e", ">">>, <<"<", "t", "h", "e", "a", "d", ">">>, <<"<", "/", "t", "h", "e", "a", "d", ">">>, <<"<", "t", "b", "o", "d", "y", ">">>, <<"<", "/", "t", "b", "o", "d", "y", ">">>, <<"<", "t", "r", ">">>, <<"<", "/", "t", "r", ">">>,
     <<"<", "t", "h", ">">>, <<"<", "/", "t", "h", ">">>, <<"<", "t", "d", ">">>, <<"<", "/", "t", "d", ">">>}

\* A generated tag at p, replaced by nothing (the longest, where two start at p).
TagMatch(s, p) ==
    LET here == {t \in GeneratedTags : StartsWithAt(s, p, t)}
        longest == CHOOSE t \in here : \A u \in here : Len(u) <= Len(t)
    IN  IF here = {} THEN NoMatch ELSE Matched(p + Len(longest), <<>>)

\* The output without the tags the pipeline wrote.
OutsideTags(s) == ReplaceAll(s, [q \in 1..Len(s) |-> TagMatch(s, q)])

\* C4: escaping is exhaustive.  In the output, outside the tags the pipeline
\* generated, there is no literal <, >, double quote or apostrophe and every &
\* starts the entity of one of the five characters; and the output holds no
\* more entities of a character than the input holds occurrences of it, so
\* that nothing is escaped twice and no generated tag is escaped.
EscapingIsExhaustive ==
    pc = "done" =>
        LET rest == OutsideTags(html)
        IN  /\ \A p \in 1..Len(rest) :
                  /\ rest[p] \in Special => rest[p] = "&"
                  /\ rest[p] = "&" => \E c \in Special : StartsWithAt(rest, p, EscapeChar(c))
            /\ \A c \in Special \ {"&"} : Count(EscapeChar(c), html) <= Count(<<c>>, text)
            /\ Count(<<"&">>, html) <= Cardinality({p \in 1..Len(text) : text[p] \in Special})

\* C4, witness: a finished rendering of an input with an escaped character
\* inside generated inline markup and inside a code block.
EscapingIsExhaustiveWitness ==
    /\ pc = "done"
    /\ \E c \in Special : Occurs(<<"<", "p", "r", "e", ">", "<", "c", "o", "d", "e", ">">> \o EscapeChar(c), html)
    /\ \E c \in Special : Occurs(<<"<", "s", "t", "r", "o", "n", "g", ">">> \o EscapeChar(c) \o <<"<", "/", "s", "t", "r", "o", "n", "g", ">">>, html)
                          \/ Occurs(<<"<", "e", "m", ">">> \o EscapeChar(c) \o <<"<", "/", "e", "m", ">">>, html)

\* The elements the pipeline writes with an opening and a closing tag.
Elements ==
    {<<"p">>, <<"b", "l", "o", "c", "k", "q", "u", "o", "t", "e">>, <<"l", "i">>, <<"t", "h">>, <<"t", "d">>, <<"h", "2">>, <<"h", "3">>, <<"h", "4">>, <<"c", "o", "d", "e">>, <<"s", "t", "r", "o", "n", "g">>, <<"e", "m">>, <<"a">>,
     <<"p", "r", "e">>, <<"u", "l">>, <<"o", "l">>, <<"t", "a", "b", "l", "e">>, <<"t", "h", "e", "a", "d">>, <<"t", "b", "o", "d", "y">>, <<"t", "r">>}

\* C5: the output is a well-formed concatenation of blocks: every element of
\* the block list closes each tag it opens, as many closing tags of an
\* element as opening ones, so that no tag is open across two blocks.
TagsClosedInTheirBlock ==
    Scanning =>
        \A k \in 1..Len(blocks) : \A e \in Elements :
            Count(<<"<">> \o e \o <<">">>, blocks[k]) + Count(<<"<">> \o e \o <<" ">>, blocks[k])
                = Count(<<"<", "/">> \o e \o <<">">>, blocks[k])

\* The marker class of a line: a number, a dot and white space, or a hyphen
\* or an asterisk and white space, after the white space the line starts with.
MarkerClass(l) ==
    IF IsOrderedLine(Trim(l)) THEN "ordered"
    ELSE IF IsUnorderedLine(Trim(l)) THEN "unordered"
    ELSE "none"

\* lines[a+1..b] (indices a..b-1 of the source) is a maximal run of one class.
IsMaximalRun(a, b) ==
    /\ MarkerClass(lines[a + 1]) # "none"
    /\ \A k \in (a + 1)..b : MarkerClass(lines[k]) = MarkerClass(lines[a + 1])
    /\ a > 0 => MarkerClass(lines[a]) # MarkerClass(lines[a + 1])
    /\ b < Len(lines) => MarkerClass(lines[b + 1]) # MarkerClass(lines[a + 1])

\* The text of an item: the trimmed line less its marker and the white space
\* after it.
ItemText(l) ==
    LET t == Trim(l)
        marker == IF MarkerClass(l) = "ordered" THEN SkipClass(t, DigitChars, 1) ELSE 1
    IN  From(t, SkipClass(t, Whitespace, marker + 1))

\* The list of the lines a..b-1: <ol> or <ul> by the class, one <li> per line.
ListOf(a, b) ==
    LET tag == IF MarkerClass(lines[a + 1]) = "ordered" THEN <<"o", "l">> ELSE <<"u", "l">>
    IN  <<"<">> \o tag \o <<">">>
        \o Concat([k \in 1..(b - a) |-> <<"<", "l", "i", ">">> \o ItemText(lines[a + k]) \o <<"<", "/", "l", "i", ">">>])
        \o <<"<", "/">> \o tag \o <<">">>

IsListOf(n, a, b) ==
    /\ applied[n].rule = "list"
    /\ applied[n].from = a
    /\ applied[n].to = b
    /\ blocks[applied[n].block] = ListOf(a, b)

\* C6, as stated: each maximal run of contiguous lines of one marker class is
\* rendered as exactly one list, <ol> or <ul> by the class, with one <li> per
\* line of the run.
EveryRunIsOneList ==
    pc = "done" =>
        \A a \in 0..(Len(lines) - 1) : \A b \in (a + 1)..Len(lines) :
            IsMaximalRun(a, b) => \E n \in 1..Len(applied) : IsListOf(n, a, b)

\* C6, amended: a list block never mixes marker classes.  Every list block is
\* one <ol> or <ul> with one <li> per line of a run of contiguous lines of one
\* marker class that ends at the first line not of that class; a line of the
\* other class after it starts a list of the other tag or, with a pipe in it
\* and a divider under it, a table; and every maximal run no line of which
\* the table rule takes is rendered as exactly one list.
ListsNeverMixClasses ==
    pc = "done" =>
        /\ \A n \in 1..Len(applied) :
              applied[n].rule = "list" =>
                LET a == applied[n].from
                    b == applied[n].to
                IN  /\ IsListOf(n, a, b)
                    /\ MarkerClass(lines[a + 1]) # "none"
                    /\ \A k \in (a + 1)..b : MarkerClass(lines[k]) = MarkerClass(lines[a + 1])
                    /\ b < Len(lines) =>
                          /\ MarkerClass(lines[b + 1]) # MarkerClass(lines[a + 1])
                          /\ MarkerClass(lines[b + 1]) # "none" =>
                                /\ applied[n + 1].from = b
                                /\ applied[n + 1].rule \in {"list", "table"}
        /\ \A a \in 0..(Len(lines) - 1) : \A b \in (a + 1)..Len(lines) :
              /\ IsMaximalRun(a, b)
              /\ \A n \in 1..Len(applied) :
                    applied[n].rule = "table" => applied[n].to <= a \/ applied[n].from >= b
              => \E n \in 1..Len(applied) : IsListOf(n, a, b)

\* C6, witness: a finished scan in which a list of two or more items ends at
\* a line of the other marker class, which starts the next list.
ListsNeverMixClassesWitness ==
    /\ pc = "done"
    /\ \E n \in 1..(Len(applied) - 1) :
          /\ applied[n].rule = "list"
          /\ applied[n + 1].rule = "list"
          /\ applied[n].to >= applied[n].from + 2

\* Text with none of the five escaped characters and no markdown syntax:
\* letters, spaces and line breaks only.
IsPlainText(s) == \A p \in 1..Len(s) : s[p] \in {"a", "b", "c", " ", "\n", "\r"}

\* A newline, with the carriage return before it if there is one.
NewlineMatch(s, p) ==
    IF StartsWithAt(s, p, <<"\r", "\n">>) THEN Matched(p + 2, <<"<", "b", "r", ">">>)
    ELSE IF s[p] = "\n" THEN Matched(p + 1, <<"<", "b", "r", ">">>)
    ELSE NoMatch

\* s with each newline replaced by <br>
WithLineBreaks(s) == ReplaceAll(s, [q \in 1..Len(s) |-> NewlineMatch(s, q)])

IsTableHeaderAt(a) ==
    /\ a + 2 <= Len(lines)
    /\ Includes(lines[a + 1], "|")
    /\ ~IsHeadingLine(Trim(lines[a + 1]))
    /\ ~IsQuoteLine(Trim(lines[a + 1]))
    /\ isTableDivider(lines[a + 2])
    /\ \A n \in 1..Len(applied) :
          applied[n].rule = "table" => ~(applied[n].from < a /\ a < applied[n].to)

\* The number of body rows under the header of index a: the contiguous lines
\* after the divider that are not blank and contain a pipe (a heading ends
\* the rows).
BodyRowsAt(a) ==
    Cardinality({b \in (a + 3)..Len(lines) :
                    \A k \in (a + 3)..b :
                        /\ Trim(lines[k]) # <<>>
                        /\ Includes(lines[k], "|")
                        /\ ~IsHeadingLine(Trim(lines[k]))})

\* C8: a header line with n cells, a divider line and k body rows render as
\* one <table> with one row of n <th> in <thead> and k rows in <tbody>, and
\* no <tbody> when k = 0.
EveryHeaderStartsATable ==
    pc = "done" =>
        \A a \in 0..(Len(lines) - 2) :
            IsTableHeaderAt(a) =>
                \E n \in 1..Len(applied) :
                    LET block == blocks[applied[n].block]
                        k == BodyRowsAt(a)
                    IN  /\ applied[n].rule = "table"
                        /\ applied[n].from = a
                        /\ applied[n].to = a + 2 + k
                        /\ Count(<<"<", "t", "a", "b", "l", "e", ">">>, block) = 1
                        /\ Count(<<"<", "t", "h", ">">>, block) = Len(readCells(lines[a + 1]))
                        /\ Count(<<"<", "t", "r", ">">>, block) = 1 + k
                        /\ Count(<<"<", "t", "b", "o", "d", "y", ">">>, block) = IF k = 0 THEN 0 ELSE 1

\* C9: stripMarkdown is idempotent: when stripMarkdown has been applied to
\* its own result, the second result equals the first.
StripIsIdempotent ==
    pc = "strip.done" /\ first # <<>> => plain = first[1]

\* The number of hash marks of a line that begins with one, two or three hash
\* marks and a space, 0 for any other line.
Hashes(l) ==
    IF StartsWith(l, <<"#", " ">>) THEN 1
    ELSE IF StartsWith(l, <<"#", "#", " ">>) THEN 2
    ELSE IF StartsWith(l, <<"#", "#", "#", " ">>) THEN 3
    ELSE 0

\* What follows the marker on the line.
RestOfLine(l) == From(l, Hashes(l) + 2)

\* The line of index k - 1 of the input is rendered as a heading of the tier
\* of its marker, in a block of its own that holds nothing else.
IsHeadingBlock(k, l) ==
    LET tag == <<"h", NumToStr(Hashes(l) + 1)[1], ">">>
    IN  \E n \in 1..Len(applied) :
            /\ applied[n].rule = "heading"
            /\ applied[n].from = k - 1
            /\ applied[n].to = k
            /\ StartsWith(blocks[applied[n].block], <<"<">> \o tag)
            /\ LET b == blocks[applied[n].block]
               IN  SubSeq(b, Len(b) - 4, Len(b)) = <<"<", "/">> \o tag
            /\ (\A p \in 1..Len(l) : l[p] \notin {"*", "_", "[", Backtick})
                  => blocks[applied[n].block] = <<"<">> \o tag \o escapeHtml(RestOfLine(l)) \o <<"<", "/">> \o tag

\* The input has no fenced code span, no text of the form of a placeholder
\* token and no carriage return other than before a newline, so that its
\* lines are the lines of the scan.
PlainLineBreaks ==
    /\ Fences(text) = <<>>
    /\ TokenCount(text) = 0
    /\ \A p \in 1..Len(text) :
          text[p] = "\r" => p < Len(text) /\ text[p + 1] = "\n"

MaxEmphasisPieces == 4

EmphasisPieces == {<<"a">>, <<" ">>, <<"*", "*", "*">>, <<"*", "*">>, <<"*">>, <<"_", "_">>, <<"_">>}

InitEmphasis == Gen(RenderCall, EmphasisPieces, <<>>, MaxEmphasisPieces) \/ RenderCall(AllRules)

SpecEmphasis == InitEmphasis /\ [][RenderNext]_vars

\* The five emphasis markers and the tags each is rendered with.
EmphasisMarkers ==
    {[delim |-> <<"*", "*", "*">>, open |-> <<"<", "s", "t", "r", "o", "n", "g", ">", "<", "e", "m", ">">>, close |-> <<"<", "/", "e", "m", ">", "<", "/", "s", "t", "r", "o", "n", "g", ">">>],
     [delim |-> <<"*", "*">>, open |-> <<"<", "s", "t", "r", "o", "n", "g", ">">>, close |-> <<"<", "/", "s", "t", "r", "o", "n", "g", ">">>],
     [delim |-> <<"*">>, open |-> <<"<", "e", "m", ">">>, close |-> <<"<", "/", "e", "m", ">">>],
     [delim |-> <<"_", "_">>, open |-> <<"<", "s", "t", "r", "o", "n", "g", ">">>, close |-> <<"<", "/", "s", "t", "r", "o", "n", "g", ">">>],
     [delim |-> <<"_">>, open |-> <<"<", "e", "m", ">">>, close |-> <<"<", "/", "e", "m", ">">>]}

\* Words: letters and spaces, no marker character and no line break.
IsWords(s) == \A p \in 1..Len(s) : s[p] \in {"a", " "}

\* t is words, the marker, the non-empty words t[a..b], the marker, words.
IsSpan(t, delim, a, b) ==
    LET n == Len(delim)
    IN  /\ a - n >= 1
        /\ a <= b
        /\ b + n <= Len(t)
        /\ SubSeq(t, a - n, a - 1) = delim
        /\ SubSeq(t, b + 1, b + n) = delim
        /\ IsWords(SubSeq(t, 1, a - n - 1))
        /\ IsWords(SubSeq(t, a, b))
        /\ IsWords(SubSeq(t, b + n + 1, Len(t)))

\* The rendering of such a text: one paragraph, the words between the markers
\* inside the marker's tags, the words around them unchanged.
SpanHtml(t, m, a, b) ==
    LET n == Len(m.delim)
    IN  <<"<", "p", ">">> \o SubSeq(t, 1, a - n - 1) \o m.open \o SubSeq(t, a, b) \o m.close
        \o SubSeq(t, b + n + 1, Len(t)) \o <<"<", "/", "p", ">">>

\* C11: words wrapped in one of the five emphasis markers render inside that
\* marker's own tags: triple asterisks as <strong><em>, double asterisks and
\* double underscores as <strong>, single asterisk and single underscore as
\* <em>; a triple-asterisk span in particular is the output of the triple
\* pattern, never of the double and single patterns applied to it.
EmphasisMostSpecificFirst ==
    pc = "done" =>
        \A m \in EmphasisMarkers : \A a \in 1..Len(text) : \A b \in a..Len(text) :
            IsSpan(text, m.delim, a, b) => html = SpanHtml(text, m, a, b)

\* C11, witness: a finished rendering of a triple-asterisk span that has words
\* before it.
EmphasisMostSpecificFirstWitness ==
    /\ pc = "done"
    /\ \E a \in 5..Len(text) : \E b \in a..Len(text) : IsSpan(text, <<"*", "*", "*">>, a, b)
    /\ Occurs(<<"<", "s", "t", "r", "o", "n", "g", ">", "<", "e", "m", ">">>, html)

\* SpecTotal: calls of renderMarkdown and of stripMarkdown on inputs of at most
\* MaxTotalLines lines: blank lines of each kind, the lines whose rule looks
\* at the next line or runs to the end of the input, an unterminated fence and
\* a token of a block that was never stored.  Every call runs to its return.
MaxTotalLines == 3

TotalLines ==
    {<<>>, <<" ">>, <<"\t", "\r">>, <<"a">>, <<"a", "|", "b">>, <<"-", "|", "-">>, <<">", " ", "a">>, <<"-", " ", "a">>, <<Backtick, Backtick, Backtick>>, <<"@", "@", "B", "L", "O", "C", "K", "7", "@", "@">>}

InitTotal ==
    \/ Gen(RenderCall, TotalLines, <<"\n">>, MaxTotalLines)
    \/ Gen(StripCall, TotalLines, <<"\n">>, MaxTotalLines)
    \/ RenderCall(AllRules)

TotalNext == RenderNext \/ StripNext

SpecTotal == InitTotal /\ [][TotalNext]_vars

\* The text is empty or holds blank lines only.
IsBlankText(s) == \A p \in 1..Len(s) : s[p] \in Whitespace

\* The call has returned.
Returned == pc \in {"done", "strip.done"}

\* The statements of each function in the order they run.
Statements ==
    <<"extract", "escape", "isolate", "inlineCode", "headers", "emphasis", "links", "split",
      "scan", "done",
      "strip.fences", "strip.code", "strip.hashes", "strip.emphasis", "strip.links",
      "strip.markers", "strip.trim", "strip.done">>

StatementIndex(at) == CHOOSE n \in 1..Len(Statements) : Statements[n] = at

\* A step brings the call nearer to its return: it moves to a later statement,
\* or it stays in the scan loop and moves the cursor forward, or it is the
\* caller's second call of stripMarkdown, which happens once.
Progresses ==
    \/ StatementIndex(pc') > StatementIndex(pc)
    \/ pc = "scan" /\ pc' = "scan" /\ i' > i
    \/ first = <<>> /\ first' # <<>>

\* C12: renderMarkdown and stripMarkdown are total: every step of a call
\* brings it nearer to its return, so no call runs for ever, the scan never
\* moves past the last line, and an input that is empty or holds blank lines
\* only renders to the empty string, without a paragraph around it.
RenderAndStripAreTotal ==
    [][/\ Progresses
       /\ i' \in 0..Len(lines')
       /\ pc' = "done" /\ IsBlankText(text') => html' = <<>>]_vars

\* C12, witness: a finished rendering of an input of several blank lines, one
\* of them holding whitespace.
RenderAndStripAreTotalWitness ==
    /\ pc = "done"
    /\ IsBlankText(text)
    /\ Len(lines) >= 2
    /\ \E p \in 1..Len(text) : text[p] = " "
    /\ html = <<>>

(***************************************************************************)
(* Several calls of renderMarkdown.  The function keeps everything in      *)
(* locals: a call is a frame of its own, and what runs between two of its  *)
(* steps are steps of other frames.                                        *)
(***************************************************************************)
\* The locals of the running call.
Frame ==
    [text |-> text, source |-> source, codeBlocks |-> codeBlocks, lines |-> lines,
     blocks |-> blocks, i |-> i, html |-> html, pc |-> pc, applied |-> applied]

\* The frame f becomes the running call.
Resume(f) ==
    /\ text' = f.text
    /\ source' = f.source
    /\ codeBlocks' = f.codeBlocks
    /\ lines' = f.lines
    /\ blocks' = f.blocks
    /\ i' = f.i
    /\ html' = f.html
    /\ pc' = f.pc
    /\ applied' = f.applied

\* renderMarkdown(t) is called while the calls made so far are finished or
\* under way: the new call starts with a store and a block list of its own.
MaxCalls == 2

NewCall(t) ==
    /\ Len(calls) + 1 < MaxCalls
    /\ calls' = Append(calls, Frame)
    /\ Resume([text |-> t, source |-> <<>>, codeBlocks |-> <<>>, lines |-> <<>>,
               blocks |-> <<>>, i |-> 0, html |-> <<>>, pc |-> "extract", applied |-> <<>>])
    /\ UNCHANGED <<plain, first, apiVars, panelVars>>

\* Another call takes its next steps.
Switch(k) ==
    /\ k \in 1..Len(calls)
    /\ calls' = [calls EXCEPT ![k] = Frame]
    /\ Resume(calls[k])
    /\ UNCHANGED <<plain, first, apiVars, panelVars>>

\* SpecCalls: up to MaxCalls calls, in sequence or interleaved step by step,
\* on texts with fenced code, with tokens and with neither.
CallTexts ==
    {<<Backtick, Backtick, Backtick, "\n", "a", "\n", Backtick, Backtick, Backtick>>, <<"@", "@", "B", "L", "O", "C", "K", "0", "@", "@">>, <<"-", " ", "b">>}

InitCalls == (\E t \in CallTexts : RenderCall(t)) \/ RenderCall(AllRules)

CallsNext ==
    \/ RenderNext
    \/ \E t \in CallTexts : NewCall(t)
    \/ \E k \in 1..Len(calls) : Switch(k)

SpecCalls == InitCalls /\ [][CallsNext]_vars

\* The calls that have returned.
ReturnedCalls ==
    {calls[k] : k \in {n \in 1..Len(calls) : calls[n].pc = "done"}}
        \cup (IF pc = "done" THEN {Frame} ELSE {})

\* C13: render calls share no state: whatever calls ran before a call or
\* between its steps, the call returns renderMarkdown of its own argument,
\* and every code block in its result comes from its own store.
CallsShareNoState ==
    \A f \in ReturnedCalls :
        /\ f.html = renderMarkdown(f.text)
        /\ Occurs(<<"<", "p", "r", "e">>, f.html) => \E n \in 1..Len(f.codeBlocks) : Occurs(f.codeBlocks[n], f.html)

\* C13, witness: a call whose text holds a token and no fence has returned
\* after a call that stored a code block took steps between its own.
CallsShareNoStateWitness ==
    /\ pc = "done"
    /\ codeBlocks = <<>>
    /\ Occurs(<<"@", "@", "B", "L", "O", "C", "K", "0", "@", "@">>, text)
    /\ \E k \in 1..Len(calls) : calls[k].pc \notin {"extract", "done"} /\ calls[k].codeBlocks # <<>>

\* C14: for an input with n fenced code spans and no text of the form of a
\* token, the output holds exactly n <pre> elements and every stored code
\* block is in it.
EveryFenceIsOnePre ==
    pc = "done" /\ TokenCount(text) = 0 =>
        /\ Count(<<"<", "p", "r", "e">>, html) = Len(Fences(text))
        /\ \A n \in 1..Len(codeBlocks) : Occurs(codeBlocks[n], html)

\* The line of index k (0-based) passes the test of the table rule: it holds
\* a pipe and the line after it is a divider.
StartsTable(ls, k) ==
    /\ isTableRow(Trim(ls[k + 1]))
    /\ k + 1 < Len(ls)
    /\ isTableDivider(Trim(ls[k + 2]))

\* C15: a paragraph run ends before a table header: no line that a paragraph
\* consumed after its first one is a pipe-containing line whose next line is
\* a divider.
ParagraphEndsBeforeTableHeader ==
    Scanning =>
        \A n \in 1..Len(applied) :
            applied[n].rule = "paragraph" =>
                \A k \in (applied[n].from + 1)..(applied[n].to - 1) : ~StartsTable(lines, k)

\* C16: a list run ends before a line that starts a table: no line that a
\* list consumed after its first one is a pipe-containing line whose next
\* line is a divider.
ListEndsBeforeTableHeader ==
    Scanning =>
        \A n \in 1..Len(applied) :
            applied[n].rule = "list" =>
                \A k \in (applied[n].from + 1)..(applied[n].to - 1) : ~StartsTable(lines, k)

\* SpecOrder: inputs of at most MaxOrderLines lines: a pipe-containing line
\* of each kind (plain, heading, blockquote, list item of either class), the
\* rule line, which is a divider too, a divider that is no rule line, a blank
\* line and a line of text.
MaxOrderLines == 3

OrderLines ==
    {<<>>, <<"a">>, <<"-", "-", "-">>, <<"-", "|", "-">>, <<"a", "|", "b">>, <<"#", " ", "a", "|", "b">>, <<">", " ", "a", "|", "b">>, <<"-", " ", "a", "|", "b">>, <<"1", ".", " ", "a", "|", "b">>}

InitOrder == Gen(RenderCall, OrderLines, <<"\n">>, MaxOrderLines) \/ RenderCall(AllRules)

SpecOrder == InitOrder /\ [][RenderNext]_vars

\* The rules in the order the claim gives, and the test of each.
RuleOrder ==
    <<"blank", "placeholder", "rule", "heading", "blockquote", "table", "list", "paragraph">>

Matches(rule, ls, k) ==
    LET l == Trim(ls[k + 1])
    IN  CASE rule = "blank" -> l = <<>>
          [] rule = "placeholder" -> IsPlaceholderLine(l)
          [] rule = "rule" -> IsRuleLine(l)
          [] rule = "heading" -> IsHeadingLine(l)
          [] rule = "blockquote" -> IsQuoteLine(l)
          [] rule = "table" -> StartsTable(ls, k)
          [] rule = "list" -> IsOrderedLine(l) \/ IsUnorderedLine(l)
          [] rule = "paragraph" -> TRUE

FirstMatching(ls, k) ==
    RuleOrder[Min({n \in 1..Len(RuleOrder) : Matches(RuleOrder[n], ls, k)})]

\* C17, as stated, in its last part: a rule line directly under a
\* pipe-containing line is never emitted as <hr>.  The pipe-containing lines
\* inside a paragraph or a list (C15, C16) are left aside.
RuleLineUnderPipeLineIsNeverHr ==
    Scanning =>
        \A n \in 2..Len(applied) :
            /\ applied[n].rule = "rule"
            /\ applied[n - 1].rule \notin {"paragraph", "list"}
            => ~Includes(lines[applied[n].from], "|")

\* C17, amended: every iteration of the scan applies the first rule, in the
\* order blank, placeholder, rule, heading, blockquote, table, list,
\* paragraph, whose test the line at the cursor passes; and where that is the
\* table rule, the line under the cursor line is consumed as the divider, so
\* no iteration starts at it and a rule line there is not emitted as <hr>.
FirstMatchingRuleAtTheCursor ==
    Scanning =>
        \A n \in 1..Len(applied) :
            /\ applied[n].rule = FirstMatching(lines, applied[n].from)
            /\ applied[n].rule = "table" =>
                  /\ applied[n].to >= applied[n].from + 2
                  /\ \A m \in 1..Len(applied) : applied[m].from # applied[n].from + 1

\* C17, witness: the scan has applied the table rule to a list item whose
\* next line is a rule line, and has gone on after it.
FirstMatchingRuleAtTheCursorWitness ==
    /\ Scanning
    /\ \E n \in 1..Len(applied) - 1 :
          /\ applied[n].rule = "table"
          /\ IsUnorderedLine(Trim(lines[applied[n].from + 1]))
          /\ IsRuleLine(Trim(lines[applied[n].from + 2]))

\* SpecBlank: inputs of at most MaxBlankLines lines: an empty line, a line of
\* whitespace, and a line of each grouping (paragraph, list, blockquote,
\* table header or row, divider).
MaxBlankLines == 4

BlankLines == {<<>>, <<" ", "\t">>, <<"a">>, <<"-", " ", "a">>, <<">", " ", "a">>, <<"a", "|", "b">>, <<"-", "|", "-">>}

InitBlank == Gen(RenderCall, BlankLines, <<"\n">>, MaxBlankLines) \/ RenderCall(AllRules)

SpecBlank == InitBlank /\ [][RenderNext]_vars

Groupings == {"paragraph", "list", "blockquote", "table"}

\* C18: a blank line ends any open grouping: no paragraph, list, blockquote
\* or table consumes a blank line, so none holds lines from both sides of
\* one, and the iteration that consumes a blank line pushes no block.
BlankLineEndsEveryGrouping ==
    Scanning =>
        /\ \A n \in 1..Len(applied) :
              /\ applied[n].rule \in Groupings =>
                    \A k \in applied[n].from..(applied[n].to - 1) : Trim(lines[k + 1]) # <<>>
              /\ Trim(lines[applied[n].from + 1]) = <<>> =>
                    /\ applied[n].rule = "blank"
                    /\ applied[n].to = applied[n].from + 1
                    /\ applied[n].block = 0
        /\ Len(blocks) = Cardinality({n \in 1..Len(applied) : applied[n].rule # "blank"})

\* C18, witness: the scan has ended a list of two items at a line of
\* whitespace and has started another list, of the same class, after it.
BlankLineEndsEveryGroupingWitness ==
    /\ Scanning
    /\ \E n \in 1..Len(applied) - 2 :
          /\ applied[n].rule = "list"
          /\ applied[n].to = applied[n].from + 2
          /\ applied[n + 1].rule = "blank"
          /\ lines[applied[n + 1].from + 1] # <<>>
          /\ applied[n + 2].rule = "list"

\* SpecTable: inputs of at most MaxTableLines lines: rows of one, two and
\* three cells, with and without edge pipes, a divider, a line of text and an
\* empty line.
MaxTableLines == 3

TableLines == {<<>>, <<"a">>, <<"a", "|">>, <<"a", "|", "b">>, <<"|", "a", "|", "b", "|">>, <<"a", "|", "b", "|", "c">>, <<"-", "|", "-">>}

InitTable == Gen(RenderCall, TableLines, <<"\n">>, MaxTableLines) \/ RenderCall(AllRules)

SpecTable == InitTable /\ [][RenderNext]_vars

\* C19: every body row of a rendered table has as many <td> cells as the
\* header row has <th> cells: in each table block the number of <td> is the
\* number of body rows times the number of <th>.
BodyRowsSizedToHeader ==
    Scanning =>
        \A n \in 1..Len(applied) :
            applied[n].rule = "table" =>
                LET table == blocks[applied[n].block]
                IN  Count(<<"<", "t", "d", ">">>, table) = (Count(<<"<", "t", "r", ">">>, table) - 1) * Count(<<"<", "t", "h", ">">>, table)

\* SpecQuote: inputs of at most MaxQuoteLines lines: blockquote lines with
\* and without leading white space and with a pipe, a table header, a
\* divider, a line of text and an empty line.
MaxQuoteLines == 4

QuoteLines == {<<>>, <<"a">>, <<">", " ", "a">>, <<" ", ">", " ", "b">>, <<">", " ", "c", "|", "d">>, <<"a", "|", "b">>, <<"-", "|", "-">>}

InitQuote == Gen(RenderCall, QuoteLines, <<"\n">>, MaxQuoteLines) \/ RenderCall(AllRules)

SpecQuote == InitQuote /\ [][RenderNext]_vars

\* The line of index k (1-based) begins, after the white space it starts
\* with, with the escaped marker.
HasQuoteMarker(k) == StartsWith(Trim(lines[k]), <<"&", "g", "t", ";", " ">>)

\* lines[a+1..b] (indices a..b-1 of the source) is a maximal run of lines
\* with the marker.
IsQuoteRun(a, b) ==
    /\ \A k \in (a + 1)..b : HasQuoteMarker(k)
    /\ a > 0 => ~HasQuoteMarker(a)
    /\ b < Len(lines) => ~HasQuoteMarker(b + 1)

\* The blockquote of the lines a..b-1: each trimmed line less its five
\* characters of marker, <br> between them.
QuoteOf(a, b) ==
    <<"<", "b", "l", "o", "c", "k", "q", "u", "o", "t", "e", ">">>
    \o Join([k \in 1..(b - a) |-> SubSeq(Trim(lines[a + k]), 6, Len(Trim(lines[a + k])))], <<"<", "b", "r", ">">>)
    \o <<"<", "/", "b", "l", "o", "c", "k", "q", "u", "o", "t", "e", ">">>

IsQuoteOf(n, a, b) ==
    /\ applied[n].rule = "blockquote"
    /\ applied[n].from = a
    /\ applied[n].to = b
    /\ blocks[applied[n].block] = QuoteOf(a, b)

\* The line of index k (0-based) was consumed by the table rule.
InTable(k) ==
    \E n \in 1..Len(applied) :
        applied[n].rule = "table" /\ applied[n].from <= k /\ k < applied[n].to

\* C20, as stated: each maximal run of contiguous lines with the marker is
\* rendered as exactly one blockquote of those lines, each less its marker,
\* joined by <br>.
EveryQuoteRunIsOneBlockquote ==
    pc = "done" =>
        \A a \in 0..(Len(lines) - 1) : \A b \in (a + 1)..Len(lines) :
            IsQuoteRun(a, b) => \E n \in 1..Len(applied) : IsQuoteOf(n, a, b)

\* C20, amended: every blockquote block holds the lines of a run of
\* contiguous lines with the marker, each trimmed and less its marker, joined
\* by <br>; the run ends at the first line without the marker and starts
\* after a line without the marker or after a body row of a table; and every
\* maximal run no line of which is a body row of a table is rendered as
\* exactly one blockquote.
QuoteRunsOutsideTablesAreBlockquotes ==
    pc = "done" =>
        /\ \A n \in 1..Len(applied) :
              applied[n].rule = "blockquote" =>
                LET a == applied[n].from
                    b == applied[n].to
                IN  /\ b > a
                    /\ IsQuoteOf(n, a, b)
                    /\ \A k \in (a + 1)..b : HasQuoteMarker(k)
                    /\ b < Len(lines) => ~HasQuoteMarker(b + 1)
                    /\ a > 0 => ~HasQuoteMarker(a) \/ InTable(a - 1)
        /\ \A a \in 0..(Len(lines) - 1) : \A b \in (a + 1)..Len(lines) :
              /\ IsQuoteRun(a, b)
              /\ \A k \in a..(b - 1) : ~InTable(k)
              => Cardinality({n \in 1..Len(applied) : IsQuoteOf(n, a, b)}) = 1

\* C20, witness: a finished rendering with a blockquote of two lines, one of
\* them with white space before the marker, that a line without the marker
\* ended.
QuoteRunsOutsideTablesAreBlockquotesWitness ==
    /\ pc = "done"
    /\ \E n \in 1..Len(applied) :
          /\ applied[n].rule = "blockquote"
          /\ applied[n].to = applied[n].from + 2
          /\ applied[n].to < Len(lines)
          /\ lines[applied[n].to + 1] # <<>>
          /\ \E k \in (applied[n].from + 1)..applied[n].to : lines[k][1] = " "
          /\ Occurs(<<"<", "b", "r", ">">>, blocks[applied[n].block])

\* SpecLinks: inputs of at most MaxLinkPieces pieces: the two parts of a
\* link around its address, a letter, the two emphasis characters and a space.
MaxLinkPieces == 5

LinkPieces == {<<"[", "a", "]", "(">>, <<")">>, <<"u">>, <<"_">>, <<"*">>, <<" ">>}

InitLinks == Gen(RenderCall, LinkPieces, <<>>, MaxLinkPieces) \/ RenderCall(AllRules)

SpecLinks == InitLinks /\ [][RenderNext]_vars

\* The value of the href attribute that opens at p in s: the text between the
\* quotation mark after href= and the next quotation mark.
HrefAt(s, p) ==
    LET q == p + Len(<<"<", "a", " ", "h", "r", "e", "f", "=", "\"">>)
        e == FindFrom(s, <<"\"">>, q)
    IN  SubSeq(s, q, (IF e = 0 THEN Len(s) + 1 ELSE e) - 1)

\* C21: the href value of every anchor is the escaped text that stood between
\* the parentheses: no inline pass has put a tag into it.
HrefHoldsNoTag ==
    pc = "done" =>
        \A p \in 1..Len(html) :
            StartsWithAt(html, p, <<"<", "a", " ", "h", "r", "e", "f", "=", "\"">>) => ~Includes(HrefAt(html, p), "<")

\* A hash mark of s stands at the start of a line.
HashBeginsLine(s) ==
    \E p \in 1..Len(s) : s[p] = "#" /\ (p = 1 \/ s[p - 1] \in LineTerminators)

\* C22: stripMarkdown removes the hash marks of heading lines only: of a text
\* in which no hash mark begins a line, every hash mark is still in the result.
HashesInsideLinesAreKept ==
    pc = "strip.done" /\ first = <<>> /\ ~HashBeginsLine(text) =>
        Count(<<"#">>, plain) = Count(<<"#">>, text)

\* C23: the extractor matches a fenced span only when a newline follows the
\* opening backticks and the language word, so that text of the body is never
\* taken as the language.
FenceOpensWithNewline ==
    pc = "done" =>
        \A k \in 1..Len(Fences(text)) :
            LET f == Fences(text)[k]
                q == f.start + 3 + Len(f.lang)
            IN  q <= Len(text) /\ text[q] = "\n"

(***************************************************************************)
(* resolveEndpoint of the API helpers: the function as operators, and as a  *)
(* state machine with one action per return.                               *)
(***************************************************************************)
API_ENDPOINT == <<"/", "v", "1", "/", "c", "h", "a", "t", "/", "c", "o", "m", "p", "l", "e", "t", "i", "o", "n", "s">>

RESPONSES_ENDPOINT == <<"/", "v", "1", "/", "r", "e", "s", "p", "o", "n", "s", "e", "s">>

EMBEDDINGS_ENDPOINT == <<"/", "v", "1", "/", "e", "m", "b", "e", "d", "d", "i", "n", "g", "s">>

FILES_ENDPOINT == <<"/", "v", "1", "/", "f", "i", "l", "e", "s">>

chatSuffix == <<"/", "c", "h", "a", "t", "/", "c", "o", "m", "p", "l", "e", "t", "i", "o", "n", "s">>

responsesSuffix == <<"/", "r", "e", "s", "p", "o", "n", "s", "e", "s">>

embeddingSuffix == <<"/", "e", "m", "b", "e", "d", "d", "i", "n", "g", "s">>

filesSuffix == <<"/", "f", "i", "l", "e", "s">>

\* String.prototype.endsWith
EndsWith(s, suffix) ==
    Len(suffix) <= Len(s) /\ SubSeq(s, Len(s) - Len(suffix) + 1, Len(s)) = suffix

\* s.replace of the expression that is suffix anchored at the end of s, for
\* an s that ends with suffix.
ReplaceSuffix(s, suffix, with) == SubSeq(s, 1, Len(s) - Len(suffix)) \o with

\* baseOrUrl.trim().replace(slash at the end, "")
Cleaned(b) == IF EndsWith(Trim(b), <<"/">>) THEN ReplaceSuffix(Trim(b), <<"/">>, <<>>) ELSE Trim(b)

\* The test of the version expression on s: a slash, v, digits, beta or
\* nothing, and then a word boundary (the end of s or a character that is no
\* word character).
hasVersion(s) ==
    \E p \in 1..Len(s) :
        /\ StartsWithAt(s, p, <<"/", "v">>)
        /\ LET d == SkipClass(s, DigitChars, p + 2)
               AtBoundary(q) == q > Len(s) \/ s[q] \notin WordChars
           IN  /\ d > p + 2
               /\ \/ AtBoundary(d)
                  \/ StartsWithAt(s, d, <<"b", "e", "t", "a">>) /\ AtBoundary(d + 4)

\* path with its leading /v1 taken off when the base has a version segment
normalizedPath(c, p) ==
    IF hasVersion(c) /\ StartsWith(p, <<"/", "v", "1", "/">>) THEN From(p, 4) ELSE p

\* The state at the call of resolveEndpoint(b, p).
ResolveCall(b, p) ==
    /\ baseOrUrl = b
    /\ path = p
    /\ cleaned = <<>>
    /\ resolved = <<>>
    /\ pc = "resolve.clean"
    /\ text = <<>>
    /\ source = <<>>
    /\ codeBlocks = <<>>
    /\ lines = <<>>
    /\ blocks = <<>>
    /\ i = 0
    /\ html = <<>>
    /\ applied = <<>>
    /\ plain = <<>>
    /\ first = <<>>
    /\ calls = <<>>
    /\ PanelUnused

markdownVars ==
    <<text, source, codeBlocks, lines, blocks, i, html, applied, plain, first, calls>>

\* const cleaned = baseOrUrl.trim().replace(...)
Clean ==
    /\ pc = "resolve.clean"
    /\ cleaned' = Cleaned(baseOrUrl)
    /\ pc' = "resolve.branch"
    /\ UNCHANGED <<baseOrUrl, path, resolved, markdownVars, panelVars>>

Return(guard, value) ==
    /\ pc = "resolve.branch"
    /\ guard
    /\ resolved' = value
    /\ pc' = "resolve.done"
    /\ UNCHANGED <<baseOrUrl, path, cleaned, markdownVars, panelVars>>

\* if (!cleaned) return ""
ReturnEmpty == Return(cleaned = <<>>, <<>>)

\* if (hasChat) ...
FromChat ==
    Return(cleaned # <<>> /\ EndsWith(cleaned, chatSuffix),
           IF path = EMBEDDINGS_ENDPOINT THEN ReplaceSuffix(cleaned, chatSuffix, embeddingSuffix)
           ELSE IF path = RESPONSES_ENDPOINT THEN ReplaceSuffix(cleaned, chatSuffix, responsesSuffix)
           ELSE IF path = FILES_ENDPOINT THEN ReplaceSuffix(cleaned, chatSuffix, filesSuffix)
           ELSE cleaned)

\* if (hasResponses) ...
FromResponses ==
    Return(/\ cleaned # <<>>
           /\ ~EndsWith(cleaned, chatSuffix)
           /\ EndsWith(cleaned, responsesSuffix),
           IF path = EMBEDDINGS_ENDPOINT THEN ReplaceSuffix(cleaned, responsesSuffix, embeddingSuffix)
           ELSE IF path = API_ENDPOINT THEN ReplaceSuffix(cleaned, responsesSuffix, chatSuffix)
           ELSE IF path = FILES_ENDPOINT THEN ReplaceSuffix(cleaned, responsesSuffix, filesSuffix)
           ELSE cleaned)

\* if (hasEmbeddings) ...
FromEmbeddings ==
    Return(/\ cleaned # <<>>
           /\ ~EndsWith(cleaned, chatSuffix)
           /\ ~EndsWith(cleaned, responsesSuffix)
           /\ EndsWith(cleaned, embeddingSuffix),
           IF path = API_ENDPOINT THEN ReplaceSuffix(cleaned, embeddingSuffix, chatSuffix)
           ELSE IF path = FILES_ENDPOINT THEN ReplaceSuffix(cleaned, embeddingSuffix, filesSuffix)
           ELSE cleaned)

\* if (hasFiles) ...
FromFiles ==
    Return(/\ cleaned # <<>>
           /\ ~EndsWith(cleaned, chatSuffix)
           /\ ~EndsWith(cleaned, responsesSuffix)
           /\ ~EndsWith(cleaned, embeddingSuffix)
           /\ EndsWith(cleaned, filesSuffix),
           IF path = API_ENDPOINT THEN ReplaceSuffix(cleaned, filesSuffix, chatSuffix)
           ELSE IF path = RESPONSES_ENDPOINT THEN ReplaceSuffix(cleaned, filesSuffix, responsesSuffix)
           ELSE IF path = EMBEDDINGS_ENDPOINT THEN ReplaceSuffix(cleaned, filesSuffix, embeddingSuffix)
           ELSE cleaned)

\* return cleaned + normalizedPath
AppendPath ==
    Return(/\ cleaned # <<>>
           /\ ~EndsWith(cleaned, chatSuffix)
           /\ ~EndsWith(cleaned, responsesSuffix)
           /\ ~EndsWith(cleaned, embeddingSuffix)
           /\ ~EndsWith(cleaned, filesSuffix),
           cleaned \o normalizedPath(cleaned, path))

ResolveNext ==
    \/ Clean
    \/ ReturnEmpty
    \/ FromChat
    \/ FromResponses
    \/ FromEmbeddings
    \/ FromFiles
    \/ AppendPath

\* SpecResolve: every base made of a host part (none, bare, with a version
\* segment), one of the four suffixes or none, and a slash or a space or
\* nothing at the end, with each of the four endpoint paths.
EndpointPaths == {API_ENDPOINT, RESPONSES_ENDPOINT, EMBEDDINGS_ENDPOINT, FILES_ENDPOINT}

BaseHosts == {<<>>, <<" ">>, <<"h">>, <<"h", "/", "v", "1">>, <<"h", "/", "v", "1", "b", "e", "t", "a">>, <<"h", "/", "v", "1", "x">>}

BaseSuffixes == {<<>>, chatSuffix, responsesSuffix, embeddingSuffix, filesSuffix}

BaseEnds == {<<>>, <<"/">>, <<" ">>}

InitResolve ==
    \E h \in BaseHosts : \E x \in BaseSuffixes : \E e \in BaseEnds : \E p \in EndpointPaths :
        ResolveCall(h \o x \o e, p)

SpecResolve == InitResolve /\ [][ResolveNext]_vars

\* The final segment of an endpoint path, with its slash.
FinalSegment(p) ==
    LET slashes == {q \in 1..Len(p) : p[q] = "/"}
    IN  From(p, CHOOSE q \in slashes : \A r \in slashes : r <= q)

\* C24: for a base that is not empty once cleaned, the result of
\* resolveEndpoint ends with the final segment of the requested path; for an
\* empty or blank base it is the empty string.
ResolvedEndsWithRequestedSegment ==
    pc = "resolve.done" =>
        /\ cleaned # <<>> => EndsWith(resolved, FinalSegment(path))
        /\ Trim(baseOrUrl) = <<>> => resolved = <<>>


\* ---------------------------------------------------------------------------
\* The context panel: sendQuestion, its stream callbacks and the Cancel and
\* Clear buttons, for one item.  A request is one call of sendQuestion; it is
\* awaiting from the call of callLLMStream until the call returns or throws.
\* ---------------------------------------------------------------------------

MAX_HISTORY_MESSAGES == 12

\* Requests sent in one behaviour, and deltas streamed to one request.
MaxRequests == 3

MaxDeltas == 2

\* The requests whose call of callLLMStream has neither returned nor thrown.
InFlight == {r \in 1..Len(requests) : requests[r] = "awaiting"}

\* The messages of a stored conversation h with the text the message objects
\* m hold: what refreshChat reads.
Conversation(h, m) ==
    [k \in 1..Len(h) |->
        IF h[k].role = "user"
        THEN [role |-> "user", req |-> h[k].req, text |-> <<"question">>, streaming |-> FALSE]
        ELSE [role |-> "assistant", req |-> h[k].req,
              text |-> m[h[k].req].text, streaming |-> m[h[k].req].streaming]]

\* refreshChat(body, item)
refreshChat == chatBox' = Conversation(chatHistory', messages')

\* if (history.length > MAX_HISTORY_MESSAGES * 2) history.splice(0, ...)
Spliced(h) ==
    IF Len(h) > MAX_HISTORY_MESSAGES * 2
    THEN SubSeq(h, Len(h) - MAX_HISTORY_MESSAGES * 2 + 1, Len(h))
    ELSE h

panelIdle == <<markdownVars, apiVars, pc>>

\* sendQuestion up to the await of callLLMStream, from the Send button, the
\* Enter key in the input box or a quick-action button; a disabled or hidden
\* control delivers no event.
Send(via) ==
    /\ pc = "panel"
    /\ currentRequestId < MaxRequests
    /\ via = "button" => sendShown /\ ~sendDisabled
    /\ via = "enter" => ~inputDisabled
    /\ via = "quick" => ~quickDisabled
    /\ currentRequestId' = currentRequestId + 1
    /\ sendShown' = FALSE
    /\ cancelShown' = TRUE
    /\ inputDisabled' = TRUE
    /\ status' = "Thinking..."
    /\ quickDisabled' = TRUE
    /\ messages' = Append(messages, [text |-> <<>>, streaming |-> TRUE])
    /\ chatHistory' =
           Spliced(chatHistory \o <<[role |-> "user", req |-> currentRequestId'],
                                    [role |-> "assistant", req |-> currentRequestId']>>)
    /\ refreshChat
    /\ currentAbortController' = IF abortSupported THEN currentRequestId' ELSE 0
    /\ requests' = Append(requests, "awaiting")
    /\ UNCHANGED <<cancelledRequestId, aborted, abortSupported, refreshQueued, sendDisabled,
                   panelIdle>>

\* The onDelta callback of request r: callLLMStream read a chunk; a stream
\* whose signal was aborted delivers no more chunks.
Delta(r) ==
    /\ pc = "panel"
    /\ r \in InFlight
    /\ r \notin aborted
    /\ Len(messages[r].text) < MaxDeltas
    /\ messages' = [messages EXCEPT ![r].text = Append(@, "delta")]
    /\ refreshQueued' = refreshQueued \cup {r}
    /\ UNCHANGED <<currentRequestId, cancelledRequestId, currentAbortController, aborted,
                   abortSupported, chatHistory, requests, chatBox, inputDisabled, sendShown,
                   sendDisabled, cancelShown, quickDisabled, status, panelIdle>>

\* The timer queueRefresh of request r set.
Refresh(r) ==
    /\ pc = "panel"
    /\ r \in refreshQueued
    /\ refreshQueued' = refreshQueued \ {r}
    /\ chatBox' = Conversation(chatHistory, messages)
    /\ UNCHANGED <<currentRequestId, cancelledRequestId, currentAbortController, aborted,
                   abortSupported, chatHistory, messages, requests, inputDisabled, sendShown,
                   sendDisabled, cancelShown, quickDisabled, status, panelIdle>>

\* The finally block of request r.
Finally(r) ==
    /\ IF cancelledRequestId < r
       THEN /\ inputDisabled' = FALSE
            /\ sendShown' = TRUE
            /\ sendDisabled' = FALSE
            /\ cancelShown' = FALSE
            /\ quickDisabled' = FALSE
       ELSE UNCHANGED <<inputDisabled, sendShown, sendDisabled, cancelShown, quickDisabled>>
    /\ currentAbortController' = 0
    /\ requests' = [requests EXCEPT ![r] = "returned"]

\* callLLMStream of request r returned the text it streamed: the statements
\* after the await, then the finally block.
Answer(r) ==
    /\ pc = "panel"
    /\ r \in InFlight
    /\ r \notin aborted
    /\ IF cancelledRequestId >= r
       THEN UNCHANGED <<messages, chatBox, status>>
       ELSE /\ messages' =
                   [messages EXCEPT
                       ![r] = [text |-> IF @.text # <<>> THEN @.text ELSE <<"No response.">>,
                               streaming |-> FALSE]]
            /\ chatBox' = Conversation(chatHistory, messages')
            /\ status' = "Ready"
    /\ Finally(r)
    /\ UNCHANGED <<currentRequestId, cancelledRequestId, aborted, abortSupported, chatHistory,
                   refreshQueued, panelIdle>>

\* callLLMStream of request r threw, for a network error or for the abort of
\* its signal: the catch block, then the finally block.
Fail(r) ==
    /\ pc = "panel"
    /\ r \in InFlight
    /\ IF cancelledRequestId >= r
       THEN UNCHANGED <<messages, chatBox, status>>
       ELSE /\ messages' = [messages EXCEPT ![r] = [text |-> <<"Error">>, streaming |-> FALSE]]
            /\ chatBox' = Conversation(chatHistory, messages')
            /\ status' = "Error"
    /\ Finally(r)
    /\ UNCHANGED <<currentRequestId, cancelledRequestId, aborted, abortSupported, chatHistory,
                   refreshQueued, panelIdle>>

\* The click handler of the Cancel button.
Cancel ==
    /\ pc = "panel"
    /\ cancelShown
    /\ aborted' = IF currentAbortController # 0
                  THEN aborted \cup {currentAbortController}
                  ELSE aborted
    /\ cancelledRequestId' = currentRequestId
    /\ status' = "Cancelled"
    /\ inputDisabled' = FALSE
    /\ sendShown' = TRUE
    /\ sendDisabled' = FALSE
    /\ cancelShown' = FALSE
    /\ UNCHANGED <<currentRequestId, currentAbortController, abortSupported, chatHistory,
                   messages, requests, refreshQueued, chatBox, quickDisabled, panelIdle>>

\* The click handler of the Clear button.
Clear ==
    /\ pc = "panel"
    /\ chatHistory' = <<>>
    /\ chatBox' = <<>>
    /\ status' = "Cleared"
    /\ UNCHANGED <<currentRequestId, cancelledRequestId, currentAbortController, aborted,
                   abortSupported, messages, requests, refreshQueued, inputDisabled, sendShown,
                   sendDisabled, cancelShown, quickDisabled, panelIdle>>

PanelNext ==
    \/ \E via \in {"button", "enter", "quick"} : Send(via)
    \/ \E r \in 1..MaxRequests : Delta(r)
    \/ \E r \in 1..MaxRequests : Refresh(r)
    \/ \E r \in 1..MaxRequests : Answer(r)
    \/ \E r \in 1..MaxRequests : Fail(r)
    \/ Cancel
    \/ Clear

\* SpecPanel: the panel of one item, built, in an environment with or without
\* AbortController.
InitPanel ==
    /\ PanelBuilt
    /\ abortSupported \in BOOLEAN
    /\ NoEndpointCall
    /\ pc = "panel"
    /\ text = <<>>
    /\ source = <<>>
    /\ codeBlocks = <<>>
    /\ lines = <<>>
    /\ blocks = <<>>
    /\ i = 0
    /\ html = <<>>
    /\ applied = <<>>
    /\ plain = <<>>
    /\ first = <<>>
    /\ calls = <<>>

SpecPanel == InitPanel /\ [][PanelNext]_vars

\* C25: where AbortController exists, while the request started last is in
\* flight, currentAbortController is the controller that request created, so
\* that Cancel aborts its network call.
ControllerIsOfRequestInFlight ==
    abortSupported /\ currentRequestId \in InFlight =>
        currentAbortController = currentRequestId

\* C26: once a request was sent and no request is in flight any more, the
\* input box and the quick-action buttons are enabled, the Send button is
\* shown and enabled, and the Cancel button is hidden.
ControlsRestoredWhenNothingInFlight ==
    currentRequestId > 0 /\ InFlight = {} =>
        /\ ~inputDisabled
        /\ sendShown
        /\ ~sendDisabled
        /\ ~cancelShown
        /\ ~quickDisabled

\* The stored conversation with the text of its messages.
Stored == Conversation(chatHistory, messages)

\* C27: where AbortController exists, a step of a request for which Cancel
\* was pressed (a delta, the answer or the error of a request r with
\* cancelledRequestId >= r) changes neither the stored conversation nor the
\* status line.
CancelledRequestChangesNothing ==
    [][\A r \in 1..MaxRequests :
          /\ abortSupported
          /\ cancelledRequestId >= r
          /\ Delta(r) \/ Answer(r) \/ Fail(r)
          => Stored' = Stored /\ status' = status]_vars

\* C28: the stored conversation never holds more than 2 * MAX_HISTORY_MESSAGES
\* messages, and when the answer of a request that was not cancelled arrives,
\* the assistant message of that request is in the stored conversation.
AnswerFindsItsMessageStored ==
    [][/\ Len(chatHistory') <= 2 * MAX_HISTORY_MESSAGES
       /\ \A r \in 1..MaxRequests :
              Answer(r) /\ cancelledRequestId < r =>
                  \E k \in 1..Len(chatHistory) :
                      chatHistory[k] = [role |-> "assistant", req |-> r]]_vars

====
